---- MODULE Spec2Model ----
(***************************************************************************)
(* Model of the PostQode marketplace backend: the unified deployment       *)
(* endpoints (unified_deploy.py), the runtime endpoints (runtime.py), the  *)
(* deployment CRUD / health endpoints (deployments.py), the license        *)
(* purchase endpoint (market.py) and the local Docker runtime service      *)
(* (docker_runtime.py) they all drive.                                     *)
(*                                                                         *)
(* Every request handler is one action.  The database tables are the       *)
(* variables licenses and deployments, the Docker daemon is images and     *)
(* containers, and last is the request/response pair of the most recent    *)
(* call.  Text (error messages, stderr) is modelled by its length.         *)
(*                                                                         *)
(* Spec serves the requests one after the other.  SpecRace serves a stop   *)
(* and a start of one deployment side by side, statement by statement.     *)
(* SpecVersions follows the package uploads (packages.py) of several       *)
(* server processes into the package store and the agent_versions table,   *)
(* SpecUploads those of a single process together with the listings.       *)
(* SpecValidate runs validate_package (package_storage.py) on every kind   *)
(* of body.  SpecDeployers calls the platform deployers                    *)
(* (services/deployers) and follows what their targets hold.  SpecTenants   *)
(* sends the requests of two users and an administrator to one deployment, *)
(* SpecImages deploys between the uploads of one process, SpecLicenses     *)
(* serves purchases side by side, and SpecPing a health ping beside a stop *)
(* and the end of a unified_deploy pipeline.                               *)
(***************************************************************************)
EXTENDS Integers, Sequences, FiniteSets, TLC

\* ------------------------------------------------------------------ bounds
MaxUploads == 3          \* package uploads the server processes accept
MaxCalls == 3            \* requests the service answers in one run
ShortStderrLen == 120    \* length of an ordinary stderr text of the docker CLI
LongStderrLen == 501     \* length of a stderr text longer than the column

\* ------------------------------------------------------- program constants
ErrorMessageMaxLen == 500   \* String(500) column of error_message
DefaultPort == 8080         \* config.get("port", 8080)
NoPort == 0                 \* deployment_config without a "port" key
NoTime == 0                 \* a nullable DateTime that is NULL / None
NoCount == -1               \* an omitted Optional[int] of a request

\* A text is modelled by the class of its length: the empty string, a text
\* that fits the error_message column, a text longer than the column.
\* "none" is NULL / None.
TextClass(len) ==
    IF len = 0 THEN "empty"
    ELSE IF len <= ErrorMessageMaxLen THEN "text" ELSE "long"

None == "none"

\* The literal error messages the handlers store.
DockerDownMsg == TextClass(38)      \* "Docker is not running or not installed"
NoPackageMsg == TextClass(23)       \* "Agent package not found"
NoPackageFileMsg == TextClass(22)   \* "Package file not found"
ImageMissingMsg == TextClass(91)    \* "Image postqode-agent-<uuid>:<ver> not found. Build it first."
AlreadyRunningMsg == TextClass(80)  \* "Container postqode-<uuid>-<8> already running"

\* --------------------------------------------------------------- universes
Users == {"u1"}
AgentIds == {"a1"}
NoAgent == "a0"             \* an agent id no row of agents carries

\* DeploymentType enum; requests may also carry a string outside it.
DeploymentType == {"cloud_managed", "kubernetes", "vm_standalone",
                   "serverless", "edge", "docker"}
RequestTypes == {"docker", "kubernetes", "azure_functions"}

DeploymentStatus == {"pending", "active", "stopped", "error", "updating"}

Ports == {18080}
DefaultAdapter == "openai"

\* A uuid4 is modelled as <<first 8 hex characters, the rest>>.  The k-th
\* row of a run gets Uuid(k): all uuids differ, and the first 8 characters
\* of the 1st and the 3rd (2nd and 4th, ...) agree.
Uuid(k) == <<k % 2, k>>
UuidSpace == {Uuid(k) : k \in 1..MaxCalls}
NoDep == <<0, 0>>           \* the empty deployment_id "" of a response; also
                            \* an id no row carries

\* A failing docker command prints a message: an ordinary one or, as a
\* build log can be, one longer than the error_message column.
Stderrs == {TextClass(ShortStderrLen), TextClass(LongStderrLen)}
\* Outcome of a docker command: None = exit code 0, else its stderr text.
CmdOutcomes == {None} \cup Stderrs

\* What the Docker daemon does during one unified_deploy call, as
\* <<is_docker_available, outcome of docker build, outcome of docker run>>:
\* the daemon is down, the build fails, the run fails, or all succeed.  (A
\* call consults the run only after a successful build, so these cover every
\* combination of the three.)
DockerScenarios ==
    {<<FALSE, None, None>>, <<TRUE, None, None>>}
    \cup {<<TRUE, e, None>> : e \in Stderrs}
    \cup {<<TRUE, None, e>> : e \in Stderrs}

PackageStates == {"none", "url_only", "stored"}
\* price_cents of a free and of a paid agent.
Prices == {0, 9900}

VARIABLES
    agents,       \* the agents table
    licenses,     \* the licenses table; a license's id is its index
    deployments,  \* the agent_deployments table, uuid -> row
    images,       \* image names the Docker daemon holds
    containers,   \* containers the Docker daemon runs
    last,         \* the most recent request and its response
    issued,       \* uuids handed out to deployment rows so far
    deployed,     \* history: ids whose container unified_deploy started
    calls,        \* requests answered so far
    pc,           \* where each request served at the same time stands
    session,      \* what the db session of each such request holds
    exited,       \* containers that are stopped and not yet removed
    versions,     \* the agent_versions table, in the order of insertion
    upload,       \* the package upload each server process is handling
    files,        \* the package store: <<agent, version>> -> bytes of the zip
    temp,         \* what is left under the temp root of the package store
    built,        \* history: image name -> bytes of the zip it was built from
    workloads     \* what the deployers' targets run: resource name -> workload

\* The requests that are served at the same time, and what they share.
raceVars == <<pc, session, exited>>

\* The version registry and the uploads that write it.
uploadVars == <<versions, upload, files, temp, built>>

vars == <<agents, licenses, deployments, images, containers, last, issued,
          deployed, calls, pc, session, exited, versions, upload, files,
          temp, built, workloads>>

\* ----------------------------------------------------------------- helpers
\* datetime.utcnow() while the current request is served: requests are
\* answered one after the other, each at a later instant than the last.
Now == calls + 1

\* deployment_id[:8]
Prefix8(deployment_id) == deployment_id[1]

\* f"postqode-{agent_id}-{deployment_id[:8]}"
ContainerName(agent_id, deployment_id) == <<agent_id, Prefix8(deployment_id)>>

\* f"postqode-agent-{agent_id}:{version}"
ImageName(agent_id, version) == <<agent_id, version>>

\* db.query(License).filter(agent_id, user_id, status == ACTIVE).first()
ActiveLicenseIds(user_id, agent_id) ==
    {i \in 1..Len(licenses) : /\ licenses[i].user_id = user_id
                              /\ licenses[i].agent_id = agent_id
                              /\ licenses[i].status = "active"}

FirstActiveLicense(user_id, agent_id) ==
    LET ids == ActiveLicenseIds(user_id, agent_id)
    IN IF ids = {} THEN 0 ELSE CHOOSE i \in ids : \A j \in ids : i <= j

\* A lookup that filters by the id alone.
OwnedBy_AnyUser(deployment_id, user_id) ==
    deployment_id \in DOMAIN deployments

\* db.query(AgentDeployment).filter(id == deployment_id, user_id == user_id)
OwnedBy(deployment_id, user_id) ==
    /\ deployment_id \in DOMAIN deployments
    /\ deployments[deployment_id].user_id = user_id

\* db.commit() of a row whose error_message is msg: PostgreSQL rejects a
\* value longer than the VARCHAR(500) column and the transaction is lost.
CommitAccepts(msg) == msg # TextClass(ErrorMessageMaxLen + 1)

\* steps.append(DeploymentStep(step=name, status="running", ...))
AppendStep(steps, name) == Append(steps, [step |-> name, status |-> "running"])

\* steps[-1].status = status
SetLastStep(steps, status) == [steps EXCEPT ![Len(steps)].status = status]

\* The response shape shared by all handlers.
Response(op, dep, code) ==
    [op |-> op, dep |-> dep, code |-> code, resp_id |-> NoDep,
     status |-> "none", steps |-> <<>>, url |-> 0,
     started |-> FALSE, created |-> FALSE, auto_start |-> FALSE,
     backend |-> "none", tool |-> "none", req |-> "none",
     running |-> FALSE, is_valid |-> FALSE, errors |-> <<>>,
     listing |-> <<>>, external_id |-> <<>>]

\* How the docker CLI behaved for the request: every command it was asked to
\* run succeeded, or the daemon was down or a command failed.
Tool(succeeded) == IF succeeded THEN "ok" ELSE "failed"

\* The env_vars mappings requests carry (a mapping is its set of pairs).
EnvChoices == {{}, {<<"API_KEY", "k1">>}}

\* The env_vars of a config that has no such key.
NoEnvVars == {<<None, None>>}

\* config.get("env_vars", {})
EnvVarsOf(config) == IF config.env_vars = NoEnvVars THEN {} ELSE config.env_vars

\* deployment.deployment_config or {}: whether the stored mapping is empty,
\* so that the handler works on a fresh dict instead of the loaded one.
ConfigIsEmpty(config) == config.env_vars = NoEnvVars /\ config.port = NoPort

\* AgentDeployment(...) as unified_deploy and create_deployment build it.
\* The table has no external_id column: the handle the target returns is
\* never stored, so the row's external_id is always absent.
NewDeployment(license_id, agent_id, user_id, deployment_type, adapter, env_vars, port) ==
    [license_id |-> license_id, agent_id |-> agent_id, user_id |-> user_id,
     deployment_type |-> deployment_type, adapter_used |-> adapter,
     deployment_config |-> [env_vars |-> env_vars, port |-> port],
     status |-> "pending", error_message |-> None, external_id |-> None,
     total_invocations |-> 0, last_invocation |-> NoTime,
     last_health_check |-> NoTime, deployed_at |-> Now, stopped_at |-> NoTime]

\* DockerRuntimeService.run_container on a daemon holding images imgs and
\* containers conts.  docker_up is whether the daemon answers, run the
\* outcome of "docker run" itself.
RunContainerResult(imgs, conts, deployment_id, agent_id, version, docker_up, run) ==
    IF ~docker_up \/ ImageName(agent_id, version) \notin imgs
    THEN [success |-> FALSE, error |-> ImageMissingMsg]
    ELSE IF ContainerName(agent_id, deployment_id) \in {c.name : c \in conts}
    THEN [success |-> FALSE, error |-> AlreadyRunningMsg]
    ELSE IF run # None
    THEN [success |-> FALSE, error |-> run]
    ELSE [success |-> TRUE, error |-> None]

\* The daemon's containers after run_container returned result.
ContainersAfterRun(conts, result, deployment_id, agent_id, port, env_vars) ==
    IF result.success
    THEN conts \cup {[name |-> ContainerName(agent_id, deployment_id),
                      deployment_id |-> deployment_id,
                      env_vars |-> env_vars]}
    ELSE conts

\* DockerRuntimeService.stop_container: "docker stop" exits non-zero when
\* the daemon is down or no container carries the name.
StopContainerResult(conts, deployment_id, agent_id, docker_up) ==
    [success |-> docker_up /\ ContainerName(agent_id, deployment_id)
                                \in {c.name : c \in conts}]

\* A stop that leaves the container in place.
ContainersAfterStop_KeepsContainer(conts, result, deployment_id, agent_id) ==
    conts

\* The daemon's containers after stop_container: stop, then rm.
ContainersAfterStop(conts, result, deployment_id, agent_id) ==
    IF result.success
    THEN {c \in conts : c.name # ContainerName(agent_id, deployment_id)}
    ELSE conts

\* The requests whose steps interleave when a stop and a start of one
\* deployment are served at the same time, followed by a status call.
Racers == {"start", "stop", "status"}

\* The server processes that answer requests against the one database.
Workers == {"w1", "w2"}
\* A process that is handling no upload.
NoUpload == [pc |-> "idle", op |-> None, agent_id |-> NoAgent,
             version |-> <<>>, bytes |-> <<>>, cleared |-> {}, existing |-> 0]
\* No package was ever uploaded or validated.
\* No deployer has put anything on its target.
NoWorkloads == workloads = <<>>

NoUploads ==
    /\ versions = <<>>
    /\ upload = [w \in Workers |-> NoUpload]
    /\ files = <<>>
    /\ temp = {}
    /\ built = <<>>

\* The catalogue the publish endpoints leave behind: the agent is free or
\* paid and has no package, a package_url whose file is absent from the
\* package store, or a stored package.  The user has purchased a license
\* for a paid agent (create_license) or holds none.  No deployment, image or
\* container exists yet.
Init ==
    /\ agents \in [AgentIds -> [price_cents : Prices, version : {1},
                                package : PackageStates]]
    /\ licenses \in {<<>>} \cup
                    {<<[user_id |-> u, agent_id |-> a, status |-> "active"]>> :
                        u \in Users, a \in AgentIds}
    /\ \A i \in 1..Len(licenses) : agents[licenses[i].agent_id].price_cents > 0
    /\ deployments = <<>>
    /\ images = {}
    /\ containers = {}
    /\ last = Response("init", NoDep, 0)
    /\ issued = 0
    /\ deployed = {}
    /\ calls = 0
    /\ pc = [r \in Racers |-> "idle"]
    /\ session = [r \in Racers |-> None]
    /\ exited = {}
    /\ NoUploads
    /\ NoWorkloads

\* ------------------------------------------------------- unified_deploy.py
\* What one handler leaves behind: the tables, the daemon and the response.
Outcome(lic, deps, imgs, conts, resp) ==
    [licenses |-> lic, deployments |-> deps, images |-> imgs,
     containers |-> conts, last |-> resp]

\* deployment.status = ERROR; deployment.error_message = msg (before commit)
MarkError(deps, deployment_id, msg) ==
    [deps EXCEPT ![deployment_id].status = "error",
                 ![deployment_id].error_message = msg]

\* A success branch that forgets to write the row.
MarkActive_RowUnwritten(deps, deployment_id) == deps

\* deployment.deployed_at = datetime.utcnow() of start_deployment and
\* start_container
Redeployed(deps, deployment_id) ==
    [deps EXCEPT ![deployment_id].deployed_at = Now]

\* deployment.stopped_at = datetime.utcnow() of the stop handlers
StoppedAt(deps, deployment_id) ==
    [deps EXCEPT ![deployment_id].stopped_at = Now]

\* deployment.status = ACTIVE; deployment.error_message = None
MarkActive(deps, deployment_id) ==
    [deps EXCEPT ![deployment_id].status = "active",
                 ![deployment_id].error_message = None]

\* A failed response whose last step was never marked.
FailedResponse_StepLeftRunning(resp, steps, deployment_id, error) ==
    [resp EXCEPT !.resp_id = deployment_id, !.status = "failed",
                 !.steps = steps]

\* return UnifiedDeployResponse(status="failed", steps=steps, error=...)
\* after steps[-1].status = "failed"
FailedResponse(resp, steps, deployment_id, error) ==
    [resp EXCEPT !.resp_id = deployment_id, !.status = "failed",
                 !.steps = SetLastStep(steps, "failed")]

\* An early abort that answers with the id the row would have received.
AbortBeforeCreate_AnswersWithId(resp, steps) ==
    [licenses |-> licenses, deployments |-> deployments, images |-> images,
     containers |-> containers,
     last |-> [resp EXCEPT !.resp_id = Uuid(issued + 1), !.status = "failed",
                           !.steps = SetLastStep(steps, "failed")]]

\* The aborts of steps 1 and 2 (lines 413-421, 452-460): nothing was added
\* to the session, the response carries deployment_id="".
AbortBeforeCreate(resp, steps) ==
    [licenses |-> licenses, deployments |-> deployments, images |-> images,
     containers |-> containers,
     last |-> [resp EXCEPT !.resp_id = NoDep, !.status = "failed",
                           !.steps = SetLastStep(steps, "failed")]]

\* A pipeline that starts the container whatever the request says.
ShouldRun_Always(auto_start) == TRUE

\* if request.auto_start: (line 590)
ShouldRun(auto_start) == auto_start

\* An exception leaves the handler: FastAPI answers 500 without a body.
RaisedResponse(resp) == [resp EXCEPT !.code = 500]

\* The failure branches after the row exists: patch the row, commit, return
\* the failed response.  A commit the database rejects raises instead, and
\* the row keeps what the last successful commit wrote.
FailAfterCreate(deps, imgs, resp, steps, deployment_id, msg) ==
    IF CommitAccepts(msg)
    THEN Outcome(licenses, MarkError(deps, deployment_id, msg), imgs,
                 containers, FailedResponse(resp, steps, deployment_id, msg))
    ELSE Outcome(licenses, deps, imgs, containers, RaisedResponse(resp))

\* Step 6 of unified_deploy (lines 589-651).
DeployRunStep(deps, imgs, resp, steps5, deployment_id, agent_id, port, auto_start, run) ==
    IF ShouldRun(auto_start)
    THEN LET steps6 == AppendStep(steps5, "run_container")
             result == RunContainerResult(imgs, containers, deployment_id,
                           agent_id, agents[agent_id].version, TRUE, run)
         IN IF ~result.success
            THEN FailAfterCreate(deps, imgs, resp, steps6, deployment_id,
                                 result.error)
            ELSE Outcome(licenses, MarkActive(deps, deployment_id), imgs,
                         ContainersAfterRun(containers, result, deployment_id,
                             agent_id, port,
                             EnvVarsOf(deps[deployment_id].deployment_config)),
                         [resp EXCEPT !.resp_id = deployment_id,
                                      !.status = "active",
                                      !.steps = SetLastStep(steps6, "completed"),
                                      !.url = port, !.started = TRUE])
    ELSE Outcome(licenses,
                 [deps EXCEPT ![deployment_id].status = "pending"],
                 imgs, containers,
                 [resp EXCEPT !.resp_id = deployment_id, !.status = "pending",
                              !.steps = steps5])

\* Step 5 of unified_deploy (lines 521-587): reuse the image the daemon
\* holds for (agent, version) or build it from the stored package.
DeployBuildStep(deps, resp, steps4, deployment_id, agent_id, port, auto_start, build, run) ==
    LET steps5 == AppendStep(steps4, "build_image")
        image == ImageName(agent_id, agents[agent_id].version)
    IN IF image \in images
       THEN DeployRunStep(deps, images, resp, SetLastStep(steps5, "completed"),
                          deployment_id, agent_id, port, auto_start, run)
       ELSE IF agents[agent_id].package = "none"
       THEN FailAfterCreate(deps, images, resp, steps5, deployment_id,
                            NoPackageMsg)
       ELSE IF agents[agent_id].package # "stored"
       THEN FailAfterCreate(deps, images, resp, steps5, deployment_id,
                            NoPackageFileMsg)
       ELSE IF build # None
       THEN FailAfterCreate(deps, images, resp, steps5, deployment_id, build)
       ELSE DeployRunStep(deps, images \cup {image}, resp,
                          SetLastStep(steps5, "completed"), deployment_id,
                          agent_id, port, auto_start, run)

\* unified_deploy (lines 385-651).  new_id is the uuid4 the row would get,
\* docker_up the answer of is_docker_available, build and run the outcomes
\* of "docker build" and "docker run".
UnifiedDeployOutcome(user_id, agent_id, deployment_type, port, auto_start, new_id, docker_up, build, run) ==
    LET resp0 == [Response("deploy", NoDep, 200) EXCEPT
                     !.auto_start = auto_start,
                     !.req = [user_id |-> user_id, agent_id |-> agent_id]]
        steps1 == AppendStep(<<>>, "validate_agent")
        same(resp) == Outcome(licenses, deployments, images, containers, resp)
    IN IF agent_id \notin DOMAIN agents
       THEN AbortBeforeCreate(resp0, steps1)
       ELSE
       LET steps2 == AppendStep(SetLastStep(steps1, "completed"), "check_license")
           license == FirstActiveLicense(user_id, agent_id)
       IN IF license = 0 /\ agents[agent_id].price_cents = 0
          \* License(..., license_type="standard"): the License model has no
          \* such attribute and its constructor raises TypeError.
          THEN same(RaisedResponse(resp0))
          ELSE IF license = 0
          THEN AbortBeforeCreate(resp0, steps2)
          ELSE
          LET steps3 == AppendStep(SetLastStep(steps2, "completed"),
                                   "create_deployment")
          IN IF deployment_type \notin DeploymentType
             \* DeploymentType(request.deployment_type) raises ValueError
             THEN same(RaisedResponse(resp0))
             ELSE
             LET row == NewDeployment(license, agent_id, user_id,
                            deployment_type, DefaultAdapter, {}, port)
                 deps == deployments @@ (new_id :> row)
                 resp3 == [resp0 EXCEPT !.dep = new_id, !.created = TRUE,
                                        !.backend = "DockerRuntimeService",
                                        !.tool = Tool(docker_up /\ build = None
                                                      /\ run = None)]
                 steps4 == AppendStep(SetLastStep(steps3, "completed"),
                                      "check_docker")
             IN IF ~docker_up
                THEN FailAfterCreate(deps, images, resp3, steps4, new_id,
                                     DockerDownMsg)
                ELSE DeployBuildStep(deps, resp3, SetLastStep(steps4, "completed"),
                                     new_id, agent_id, port, auto_start,
                                     build, run)

UnifiedDeploy(user_id, agent_id, deployment_type, port, auto_start, new_id, docker_up, build, run) ==
    /\ new_id \notin DOMAIN deployments
    /\ LET out == UnifiedDeployOutcome(user_id, agent_id, deployment_type,
                       port, auto_start, new_id, docker_up, build, run)
       IN /\ licenses' = out.licenses
          /\ deployments' = out.deployments
          /\ images' = out.images
          /\ containers' = out.containers
          /\ last' = out.last
          /\ issued' = IF out.last.created THEN issued + 1 ELSE issued
    /\ UNCHANGED agents

\* ------------------------------------------------- deployers/factory.py
\* DeploymentFactory.get_deployer: the deployer registered for a platform.
GetDeployer(platform) ==
    CASE platform = "docker" -> "DockerDeployer"
      [] platform = "kubernetes" -> "KubernetesDeployer"
      [] platform \in {"azure_functions", "serverless"} -> "AzureFunctionsDeployer"
      [] platform \in {"vm_standalone", "vm", "bare_metal"} -> "VMDeployer"
      [] platform \in {"edge", "iot"} -> "EdgeDeployer"
      [] OTHER -> "ValueError"

\* The backends that drive the local docker CLI.
LocalContainerBackends == {"DockerDeployer", "DockerRuntimeService"}

\* ---------------------------------------------------------------- market.py
\* create_license (lines 303-353): the purchase endpoint.
CreateLicense(user_id, agent_id) ==
    /\ IF agent_id \notin DOMAIN agents
       THEN /\ last' = Response("create_license", NoDep, 404)
            /\ UNCHANGED licenses
       ELSE IF FirstActiveLicense(user_id, agent_id) # 0
       THEN /\ last' = Response("create_license", NoDep, 201)
            /\ UNCHANGED licenses
       ELSE /\ licenses' = Append(licenses, [user_id |-> user_id,
                                agent_id |-> agent_id, status |-> "active"])
            /\ last' = Response("create_license", NoDep, 201)
    /\ UNCHANGED <<agents, deployments, images, containers, issued>>

\* start_deployment (lines 658-711).
StartDeployment(deployment_id, user_id, docker_up, run) ==
    /\ IF ~OwnedBy(deployment_id, user_id)
       THEN /\ last' = Response("start", deployment_id, 404)
            /\ UNCHANGED <<deployments, containers>>
       ELSE IF ~docker_up
       THEN /\ last' = [Response("start", deployment_id, 503) EXCEPT
                           !.tool = Tool(FALSE)]
            /\ UNCHANGED <<deployments, containers>>
       ELSE
       LET row == deployments[deployment_id]
           port == IF row.deployment_config.port = NoPort THEN DefaultPort
                   ELSE row.deployment_config.port
           result == RunContainerResult(images, containers, deployment_id,
                         row.agent_id, agents[row.agent_id].version, TRUE, run)
           resp == [Response("start", deployment_id, 200) EXCEPT
                       !.backend = "DockerRuntimeService",
                       !.tool = Tool(run = None)]
       IN IF ~result.success
          THEN /\ deployments' = IF CommitAccepts(result.error)
                                 THEN MarkError(deployments, deployment_id,
                                                result.error)
                                 ELSE deployments
               /\ last' = [resp EXCEPT !.code = 500]
               /\ UNCHANGED containers
          ELSE /\ deployments' = Redeployed(MarkActive(deployments, deployment_id),
                                            deployment_id)
               /\ containers' = ContainersAfterRun(containers, result,
                                    deployment_id, row.agent_id, port,
                                    EnvVarsOf(row.deployment_config))
               /\ last' = [resp EXCEPT !.url = port, !.started = TRUE]
    /\ UNCHANGED <<agents, licenses, images, issued>>

\* stop_deployment (lines 714-739): the result of stop_container is not read.
StopDeploymentStatus(status, result) == "stopped"

StopDeployment(deployment_id, user_id, docker_up) ==
    /\ IF ~OwnedBy(deployment_id, user_id)
       THEN /\ last' = Response("stop", deployment_id, 404)
            /\ UNCHANGED <<deployments, containers>>
       ELSE
       LET row == deployments[deployment_id]
           result == StopContainerResult(containers, deployment_id,
                                         row.agent_id, docker_up)
       IN /\ containers' = ContainersAfterStop(containers, result,
                                               deployment_id, row.agent_id)
          /\ deployments' = StoppedAt(
                                [deployments EXCEPT ![deployment_id].status =
                                    StopDeploymentStatus(row.status, result)],
                                deployment_id)
          /\ last' = [Response("stop", deployment_id, 200) EXCEPT
                         !.backend = "DockerRuntimeService",
                         !.tool = Tool(docker_up)]
    /\ UNCHANGED <<agents, licenses, images, issued>>

\* A restart that marks the row as updating.
RestartedStatus_Updating(status) == "updating"

\* reconfigure_deployment (lines 783-789): a successful restart returns
\* without writing the status.
RestartedStatus(status) == status

\* reconfigure_deployment (lines 759-763): config is the dict loaded from the
\* JSON column, changed in place and assigned back.  The column is a plain
\* JSON type, so the unit of work compares the assigned value with the
\* loaded one, finds the same object and writes nothing; the commit expires
\* the instance and the row keeps its stored env_vars.  Only a row whose
\* stored config is empty gets a fresh dict, which is written.
StoredEnvVars(config, env_vars) ==
    IF ConfigIsEmpty(config) THEN env_vars ELSE config.env_vars

\* reconfigure_deployment (lines 742-789).  The restart runs the container
\* with the env_vars of the request.
ReconfigureDeployment(deployment_id, user_id, env_vars, restart, docker_up, run) ==
    /\ IF ~OwnedBy(deployment_id, user_id)
       THEN /\ last' = Response("reconfigure", deployment_id, 404)
            /\ UNCHANGED <<deployments, containers>>
       ELSE
       LET row == deployments[deployment_id]
           deps == [deployments EXCEPT
                       ![deployment_id].deployment_config.env_vars =
                           StoredEnvVars(row.deployment_config, env_vars)]
           port == IF row.deployment_config.port = NoPort THEN DefaultPort
                   ELSE row.deployment_config.port
           resp0 == [Response("reconfigure", deployment_id, 200) EXCEPT
                        !.req = [env_vars |-> env_vars, restart |-> restart]]
       IN IF restart /\ row.status = "active"
          THEN LET stopped == ContainersAfterStop(containers,
                                  StopContainerResult(containers, deployment_id,
                                      row.agent_id, docker_up),
                                  deployment_id, row.agent_id)
                   result == RunContainerResult(images, stopped, deployment_id,
                                 row.agent_id, agents[row.agent_id].version,
                                 docker_up, run)
                   resp == [resp0 EXCEPT
                               !.backend = "DockerRuntimeService",
                               !.tool = Tool(docker_up /\ run = None)]
               IN IF ~result.success
                  THEN /\ deployments' = IF CommitAccepts(result.error)
                                         THEN MarkError(deps, deployment_id,
                                                        result.error)
                                         ELSE deps
                       /\ containers' = stopped
                       /\ last' = [resp EXCEPT !.code = 500]
                  ELSE /\ deployments' = [deps EXCEPT ![deployment_id].status =
                                             RestartedStatus(row.status)]
                       /\ containers' = ContainersAfterRun(stopped, result,
                                            deployment_id, row.agent_id, port,
                                            env_vars)
                       /\ last' = [resp EXCEPT !.started = TRUE]
          ELSE /\ deployments' = deps
               /\ last' = resp0
               /\ UNCHANGED containers
    /\ UNCHANGED <<agents, licenses, images, issued>>

\* --------------------------------------------------------------- runtime.py
\* start_container (lines 129-198).
StartContainer(deployment_id, user_id, adapter, port, env_vars, docker_up, run) ==
    /\ IF ~OwnedBy(deployment_id, user_id)
       THEN /\ last' = Response("runtime_start", deployment_id, 404)
            /\ UNCHANGED <<deployments, containers>>
       ELSE IF licenses[deployments[deployment_id].license_id].status # "active"
       THEN /\ last' = Response("runtime_start", deployment_id, 403)
            /\ UNCHANGED <<deployments, containers>>
       ELSE IF ~docker_up
       THEN /\ last' = [Response("runtime_start", deployment_id, 503) EXCEPT
                           !.tool = Tool(FALSE)]
            /\ UNCHANGED <<deployments, containers>>
       ELSE
       LET row == deployments[deployment_id]
           result == RunContainerResult(images, containers, deployment_id,
                         row.agent_id, agents[row.agent_id].version, TRUE, run)
           resp == [Response("runtime_start", deployment_id, 200) EXCEPT
                       !.backend = "DockerRuntimeService",
                       !.tool = Tool(run = None)]
       IN IF ~result.success
          THEN /\ deployments' = IF CommitAccepts(result.error)
                                 THEN MarkError(deployments, deployment_id,
                                                result.error)
                                 ELSE deployments
               /\ last' = [resp EXCEPT !.code = 500]
               /\ UNCHANGED containers
          ELSE /\ deployments' =
                     [Redeployed(MarkActive(deployments, deployment_id),
                                 deployment_id) EXCEPT
                         ![deployment_id].deployment_type = "docker",
                         ![deployment_id].adapter_used = adapter]
               /\ containers' = ContainersAfterRun(containers, result,
                                    deployment_id, row.agent_id, port, env_vars)
               /\ last' = [resp EXCEPT !.url = port, !.started = TRUE]
    /\ UNCHANGED <<agents, licenses, images, issued>>

\* stop_container (lines 201-230).
StopContainer(deployment_id, user_id, docker_up) ==
    /\ IF ~OwnedBy(deployment_id, user_id)
       THEN /\ last' = Response("runtime_stop", deployment_id, 404)
            /\ UNCHANGED <<deployments, containers>>
       ELSE
       LET row == deployments[deployment_id]
           result == StopContainerResult(containers, deployment_id,
                                         row.agent_id, docker_up)
           resp == [Response("runtime_stop", deployment_id, 200) EXCEPT
                       !.backend = "DockerRuntimeService",
                       !.tool = Tool(docker_up)]
       IN IF ~result.success
          THEN /\ last' = [resp EXCEPT !.code = 500]
               /\ UNCHANGED <<deployments, containers>>
          ELSE /\ containers' = ContainersAfterStop(containers, result,
                                    deployment_id, row.agent_id)
               /\ deployments' = StoppedAt(
                                     [deployments EXCEPT
                                         ![deployment_id].status = "stopped"],
                                     deployment_id)
               /\ last' = resp
    /\ UNCHANGED <<agents, licenses, images, issued>>

\* ----------------------------------------------------------- deployments.py
\* create_deployment (lines 69-123): registers a row without deploying.  The
\* request carries no deployment_config, so the row's config has no keys.
CreateDeployment(user_id, license_id, agent_id, deployment_type, new_id) ==
    /\ new_id \notin DOMAIN deployments
    /\ IF ~(/\ license_id \in 1..Len(licenses)
            /\ licenses[license_id].user_id = user_id
            /\ licenses[license_id].status = "active")
       THEN /\ last' = Response("create_deployment", NoDep, 403)
            /\ UNCHANGED <<deployments, issued>>
       ELSE IF agent_id \notin DOMAIN agents
       THEN /\ last' = Response("create_deployment", NoDep, 404)
            /\ UNCHANGED <<deployments, issued>>
       ELSE /\ issued' = issued + 1
            /\ deployments' = deployments @@
                 (new_id :> NewDeployment(license_id, agent_id, user_id,
                                deployment_type, DefaultAdapter, NoEnvVars, NoPort))
            /\ last' = [Response("create_deployment", new_id, 200) EXCEPT
                           !.created = TRUE]
    /\ UNCHANGED <<agents, licenses, images, containers>>

\* update_deployment_status (lines 165-215); None is an omitted field.
UpdateDeploymentStatus(deployment_id, user_id, status, error_message) ==
    /\ IF ~OwnedBy(deployment_id, user_id)
       THEN /\ last' = Response("update_status", deployment_id, 404)
            /\ UNCHANGED deployments
       ELSE
       LET row == deployments[deployment_id]
           msg == IF error_message # None THEN error_message
                  ELSE row.error_message
       IN IF ~CommitAccepts(msg)
          THEN /\ last' = Response("update_status", deployment_id, 500)
               /\ UNCHANGED deployments
          ELSE /\ deployments' = [deployments EXCEPT
                     ![deployment_id].status =
                         IF status # None THEN status ELSE row.status,
                     ![deployment_id].stopped_at =
                         IF status = "stopped" THEN Now ELSE row.stopped_at,
                     ![deployment_id].error_message = msg]
               /\ last' = Response("update_status", deployment_id, 200)
    /\ UNCHANGED <<agents, licenses, images, containers, issued>>

\* A ping that also revives a failed deployment.
HealthStatus_PromotesError(status) ==
    IF status \in {"pending", "error"} THEN "active" ELSE status

\* A ping that marks every row active.
HealthStatus_AlwaysActive(status) == "active"

\* health_check (lines 243-245): a ping promotes a pending deployment.
HealthStatus(status) == IF status = "pending" THEN "active" ELSE status

\* A ping that adds the reported value to the stored one.
Reported_Increments(stored, reported, absent) ==
    IF reported # absent THEN stored + reported ELSE stored

\* health_check (lines 237-241): a reported value is assigned, an omitted
\* one (absent) leaves the stored value.
Reported(stored, reported, absent) ==
    IF reported # absent THEN reported ELSE stored

\* health_check (lines 218-249): no user_id, any caller may ping.
HealthCheck(deployment_id, total_invocations, last_invocation) ==
    /\ IF deployment_id \notin DOMAIN deployments
       THEN /\ last' = Response("health", deployment_id, 404)
            /\ UNCHANGED deployments
       ELSE
       LET row == deployments[deployment_id]
       IN /\ deployments' = [deployments EXCEPT
                 ![deployment_id].last_health_check = Now,
                 ![deployment_id].total_invocations =
                     Reported(row.total_invocations, total_invocations, NoCount),
                 ![deployment_id].last_invocation =
                     Reported(row.last_invocation, last_invocation, NoTime),
                 ![deployment_id].status = HealthStatus(row.status)]
          /\ last' = [Response("health", deployment_id, 200) EXCEPT
                         !.status = HealthStatus(row.status),
                         !.req = [total_invocations |-> total_invocations,
                                  last_invocation |-> last_invocation]]
    /\ UNCHANGED <<agents, licenses, images, containers, issued>>

\* delete_deployment (lines 252-270): removes the row, not the container.
DeleteDeployment(deployment_id, user_id) ==
    /\ IF ~OwnedBy(deployment_id, user_id)
       THEN /\ last' = Response("delete", deployment_id, 404)
            /\ UNCHANGED deployments
       ELSE /\ deployments' = [d \in DOMAIN deployments \ {deployment_id} |->
                                  deployments[d]]
            /\ last' = Response("delete", deployment_id, 200)
    /\ UNCHANGED <<agents, licenses, images, containers, issued>>

\* ------------------------------------------------------------ specification
\* The values a status update may carry.
UpdateStatuses == {None, "stopped", "updating"}
UpdateMessages == {None, TextClass(ShortStderrLen)}
\* The total_invocations and the last_invocation a ping may carry.
HealthTotals == {NoCount, 7}
InvocationTimes == {NoTime, 1}
\* The daemon as a start or restart meets it: down, or up with an outcome
\* of "docker run".
RunScenarios == {<<FALSE, None>>} \cup {<<TRUE, r>> : r \in CmdOutcomes}
\* The deployment types create_deployment is asked for.
CreateTypes == {"kubernetes"}

\* Requests address a row of the table, or an id no row carries: the empty
\* id, or once more the id of the previous request after its row is gone.
RequestIds == DOMAIN deployments \cup {NoDep, last.dep}
GoneIds == RequestIds \ DOMAIN deployments

\* The requests of a handler that looks its row up first: every input for
\* a row of the table, one input for an id no row carries (the handler
\* answers 404 before it reads anything else).
Addressed(Inputs, any) ==
    ((DOMAIN deployments) \X Inputs) \cup (GoneIds \X {any})

\* The daemon with every command succeeding.
AllSucceed == <<TRUE, None, None>>
RunSucceeds == <<TRUE, None>>

\* The unified_deploy requests, as <<agent, deployment_type, auto_start,
\* daemon>>: an unknown agent and an unknown deployment_type are refused
\* before the daemon is asked anything, and without auto_start "docker run"
\* is never issued.
DeployRequests ==
    {<<NoAgent, "docker", TRUE, AllSucceed>>}
    \cup {<<a, t, TRUE, AllSucceed>> :
              a \in AgentIds, t \in RequestTypes \ DeploymentType}
    \cup {<<a, t, TRUE, env>> :
              a \in AgentIds, t \in RequestTypes \cap DeploymentType,
              env \in DockerScenarios}
    \cup {<<a, t, FALSE, env>> :
              a \in AgentIds, t \in RequestTypes \cap DeploymentType,
              env \in {e \in DockerScenarios : e[3] = None}}

\* The reconfigure inputs, as <<env_vars, restart, daemon>>: without restart
\* the daemon is not asked anything.
ReconfigureInputs ==
    {<<e, FALSE, RunSucceeds>> : e \in EnvChoices}
    \cup {<<e, TRUE, env>> : e \in EnvChoices, env \in RunScenarios}

\* The service answers one request at a time, MaxCalls requests in all; a
\* deployment is recorded as deployed once unified_deploy started its
\* container.
Serve(Handler) ==
    /\ calls < MaxCalls
    /\ Handler
    /\ calls' = calls + 1
    /\ deployed' = IF last'.op = "deploy" /\ last'.started
                   THEN deployed \cup {last'.dep}
                   ELSE deployed
    /\ UNCHANGED <<raceVars, uploadVars, workloads>>

Next ==
    \/ \E u \in Users, a \in AgentIds \cup {NoAgent} : Serve(CreateLicense(u, a))
    \/ \E u \in Users, rq \in DeployRequests, p \in Ports :
          Serve(UnifiedDeploy(u, rq[1], rq[2], p, rq[3], Uuid(issued + 1),
                              rq[4][1], rq[4][2], rq[4][3]))
    \/ \E u \in Users, rq \in Addressed(RunScenarios, RunSucceeds) :
          Serve(StartDeployment(rq[1], u, rq[2][1], rq[2][2]))
    \/ \E u \in Users, rq \in Addressed(BOOLEAN, TRUE) :
          Serve(StopDeployment(rq[1], u, rq[2]))
    \/ \E u \in Users,
          rq \in Addressed(ReconfigureInputs, <<{}, FALSE, RunSucceeds>>) :
          Serve(ReconfigureDeployment(rq[1], u, rq[2][1], rq[2][2],
                                      rq[2][3][1], rq[2][3][2]))
    \/ \E u \in Users, p \in Ports,
          rq \in Addressed(EnvChoices \X RunScenarios, <<{}, RunSucceeds>>) :
          Serve(StartContainer(rq[1], u, DefaultAdapter, p, rq[2][1],
                               rq[2][2][1], rq[2][2][2]))
    \/ \E u \in Users, rq \in Addressed(BOOLEAN, TRUE) :
          Serve(StopContainer(rq[1], u, rq[2]))
    \/ \E u \in Users, l \in 1..Len(licenses), a \in AgentIds,
          t \in CreateTypes :
          Serve(CreateDeployment(u, l, a, t, Uuid(issued + 1)))
    \/ \E u \in Users,
          rq \in Addressed(UpdateStatuses \X UpdateMessages, <<None, None>>) :
          Serve(UpdateDeploymentStatus(rq[1], u, rq[2][1], rq[2][2]))
    \/ \E rq \in Addressed(HealthTotals \X InvocationTimes, <<NoCount, NoTime>>) :
          Serve(HealthCheck(rq[1], rq[2][1], rq[2][2]))
    \/ \E d \in RequestIds, u \in Users : Serve(DeleteDeployment(d, u))

Spec == Init /\ [][Next]_vars

\* ------------------------------------------ a stop and a start side by side
\* The handlers are plain functions, which FastAPI serves on the threads of
\* a pool: a stop and a start of one deployment interleave at every
\* statement that reaches the database or the daemon.  Each request has a
\* session of its own, and its commit writes the columns whose value differs
\* from the one the session loaded.

\* The deployment both requests address.
RaceDep == Uuid(1)
\* The status of its row when the requests arrive.
RaceStatuses == {"active", "stopped", "pending", "error"}

\* "docker run --name" when a container carries the name already
NameInUseMsg == TextClass(ShortStderrLen)

\* The row and the daemon as unified_deploy, stop_deployment and
\* start_deployment leave them: the container runs when the row is active.
InitRace ==
    /\ calls = 2
    /\ agents = [a \in AgentIds |->
                    [price_cents |-> 9900, version |-> 1, package |-> "stored"]]
    /\ \E u \in Users, a \in AgentIds, p \in Ports, env \in EnvChoices,
          st \in RaceStatuses :
          LET row == [NewDeployment(1, a, u, "kubernetes", DefaultAdapter, env, p)
                         EXCEPT !.status = st,
                                !.deployed_at = 1,
                                !.stopped_at = IF st = "stopped" THEN 2
                                               ELSE NoTime,
                                !.error_message =
                                    IF st = "error"
                                    THEN TextClass(ShortStderrLen) ELSE None]
          IN /\ licenses = <<[user_id |-> u, agent_id |-> a,
                              status |-> "active"]>>
             /\ deployments = (RaceDep :> row)
             /\ images = {ImageName(a, 1)}
             /\ containers =
                    IF st = "active"
                    THEN ContainersAfterRun({}, [success |-> TRUE, error |-> None],
                                            RaceDep, a, p, env)
                    ELSE {}
             /\ deployed = IF st \in {"active", "stopped"} THEN {RaceDep} ELSE {}
    /\ last = Response("init", NoDep, 0)
    /\ issued = 1
    /\ pc = [start |-> "load", stop |-> "load", status |-> "wait"]
    /\ session = [r \in Racers |-> None]
    /\ exited = {}
    /\ NoUploads
    /\ NoWorkloads

\* What the side-by-side requests never touch.
RaceFrame ==
    UNCHANGED <<agents, licenses, images, issued, deployed, uploadVars,
                workloads>>

\* The request moves on to its next statement.
Goto(racer, position) == pc' = [pc EXCEPT ![racer] = position]

\* db.query(AgentDeployment)...first(): the session holds the row as it is
\* committed now.
Loads(racer, position) ==
    /\ pc[racer] = "load"
    /\ session' = [session EXCEPT ![racer] =
                      [row |-> deployments[RaceDep],
                       result |-> [success |-> FALSE, error |-> None]]]
    /\ Goto(racer, position)
    /\ UNCHANGED <<deployments, containers, exited, last, calls>>
    /\ RaceFrame

\* db.commit(): the UPDATE carries the columns the request changed, that is
\* those of its object mine that differ from the loaded row; the stored row
\* keeps every other column as another commit left it.
Flushed(stored, loaded, mine) ==
    [f \in DOMAIN stored |-> IF mine[f] # loaded[f] THEN mine[f] ELSE stored[f]]

\* start_deployment, lines 665-671
StartLoads == Loads("start", "check")

\* run_container, lines 184-192: "docker images -q", then "docker ps -q".
StartChecks ==
    /\ pc["start"] = "check"
    /\ LET row == session["start"].row
           found == RunContainerResult(images, containers, RaceDep, row.agent_id,
                        agents[row.agent_id].version, TRUE, None)
       IN IF found.success
          THEN /\ Goto("start", "run")
               /\ UNCHANGED session
          ELSE /\ Goto("start", "commit")
               /\ session' = [session EXCEPT !["start"].result = found]
    /\ UNCHANGED <<deployments, containers, exited, last, calls>>
    /\ RaceFrame

\* run_container, lines 213-227: "docker run -d --name ...", which fails when
\* a container, running or stopped, carries the name.
StartRuns(run) ==
    /\ pc["start"] = "run"
    /\ LET row == session["start"].row
           name == ContainerName(row.agent_id, RaceDep)
           port == IF row.deployment_config.port = NoPort THEN DefaultPort
                   ELSE row.deployment_config.port
           result == IF name \in {c.name : c \in containers \cup exited}
                     THEN [success |-> FALSE, error |-> NameInUseMsg]
                     ELSE IF run # None
                     THEN [success |-> FALSE, error |-> run]
                     ELSE [success |-> TRUE, error |-> None]
       IN /\ containers' = ContainersAfterRun(containers, result, RaceDep,
                               row.agent_id, port,
                               EnvVarsOf(row.deployment_config))
          /\ session' = [session EXCEPT !["start"].result = result]
    /\ Goto("start", "commit")
    /\ UNCHANGED <<deployments, exited, last, calls>>
    /\ RaceFrame

\* start_deployment, lines 696-712: the row is marked and committed, and the
\* request is answered.
StartCommits ==
    /\ pc["start"] = "commit"
    /\ LET loaded == session["start"].row
           result == session["start"].result
           own == (RaceDep :> loaded)
           mine == IF result.success
                   THEN Redeployed(MarkActive(own, RaceDep), RaceDep)[RaceDep]
                   ELSE MarkError(own, RaceDep, result.error)[RaceDep]
       IN /\ deployments' =
                 IF result.success \/ CommitAccepts(result.error)
                 THEN [deployments EXCEPT ![RaceDep] = Flushed(@, loaded, mine)]
                 ELSE deployments
          /\ last' = [Response("start", RaceDep,
                               IF result.success THEN 200 ELSE 500) EXCEPT
                         !.backend = "DockerRuntimeService",
                         !.tool = Tool(result.success),
                         !.started = result.success]
    /\ Goto("start", "done")
    /\ calls' = calls + 1
    /\ UNCHANGED <<containers, exited, session>>
    /\ RaceFrame

\* stop_deployment, lines 720-726
StopLoads == Loads("stop", "stop")

\* stop_container, lines 233-235: "docker stop"; it exits non-zero, and
\* stop_container returns, when no container carries the name.
StopStops ==
    /\ pc["stop"] = "stop"
    /\ LET row == session["stop"].row
           name == ContainerName(row.agent_id, RaceDep)
           running == {c \in containers : c.name = name}
       IN /\ containers' = containers \ running
          /\ exited' = exited \cup running
          /\ IF name \in {c.name : c \in containers \cup exited}
             THEN Goto("stop", "rm")
             ELSE Goto("stop", "commit")
    /\ UNCHANGED <<deployments, session, last, calls>>
    /\ RaceFrame

\* stop_container, line 238: "docker rm" of the stopped container
StopRemoves ==
    /\ pc["stop"] = "rm"
    /\ LET row == session["stop"].row
           name == ContainerName(row.agent_id, RaceDep)
       IN exited' = {c \in exited : c.name # name}
    /\ Goto("stop", "commit")
    /\ UNCHANGED <<deployments, containers, session, last, calls>>
    /\ RaceFrame

\* stop_deployment, lines 734-738: the row is marked and committed, and the
\* request is answered.
StopCommits ==
    /\ pc["stop"] = "commit"
    /\ LET loaded == session["stop"].row
           own == (RaceDep :> [loaded EXCEPT !.status =
                      StopDeploymentStatus(loaded.status, [success |-> TRUE])])
           mine == StoppedAt(own, RaceDep)[RaceDep]
       IN deployments' = [deployments EXCEPT ![RaceDep] =
                             Flushed(@, loaded, mine)]
    /\ last' = [Response("stop", RaceDep, 200) EXCEPT
                   !.backend = "DockerRuntimeService"]
    /\ Goto("stop", "done")
    /\ calls' = calls + 1
    /\ UNCHANGED <<containers, exited, session>>
    /\ RaceFrame

\* get_container_status (runtime.py, lines 233-261), called once both
\* requests are answered: it reads the row and inspects the container.
StatusCall ==
    /\ pc["start"] = "done" /\ pc["stop"] = "done" /\ pc["status"] = "wait"
    /\ LET row == deployments[RaceDep]
           name == ContainerName(row.agent_id, RaceDep)
       IN last' = [Response("status", RaceDep, 200) EXCEPT
                      !.status = row.status,
                      !.running = name \in {c.name : c \in containers}]
    /\ Goto("status", "done")
    /\ calls' = calls + 1
    /\ UNCHANGED <<deployments, containers, exited, session>>
    /\ RaceFrame

NextRace ==
    \/ StartLoads
    \/ StartChecks
    \/ \E run \in CmdOutcomes : StartRuns(run)
    \/ StartCommits
    \/ StopLoads
    \/ StopStops
    \/ StopRemoves
    \/ StopCommits
    \/ StatusCall

SpecRace == InitRace /\ [][NextRace]_vars

\* --------------------------------------------------------------- packages.py
\* publish_agent_from_package (lines 37-216) and upload_agent_package (lines
\* 219-364) are coroutines that do not yield between reading the file and
\* the commit, so one server process writes the registry for one upload at
\* a time.  Several processes share the database: their transactions run
\* side by side, each statement reading what is committed when it starts.

\* The versions the manifests of the uploaded packages name, as the
\* numbers between the dots.
VersionNames == {<<1, 9, 0>>, <<1, 10, 0>>}
\* Agent.version before any package is stored: the column default "1.0.0".
DefaultVersion == <<1, 0, 0>>
\* The bytes of the uploaded packages, as chunks: a shorter package and a
\* longer one.
Contents == {<<"p">>, <<"q", "q">>}
\* The two endpoints that store a package.
UploadOps == {"publish", "upload"}

\* hashlib.sha256(package_content).hexdigest(): equal digests mean equal
\* bytes.
Digest(bytes) == <<"sha256", bytes>>

\* f.write(package_content) on a file opened without O_TRUNC taking effect
\* again: the bytes are laid over the start of the file, and what the file
\* held beyond them stays.
Overlay(old, bytes) == bytes \o SubSeq(old, Len(bytes) + 1, Len(old))

\* The registry rows of an agent, by position in the table.
RowsOf(agent_id) ==
    {i \in 1..Len(versions) : versions[i].agent_id = agent_id}

\* Rows another process's open transaction has written and holds locked.
LockedByOthers(w) ==
    UNION {upload[o].cleared : o \in {x \in Workers \ {w} :
                                       upload[x].pc \in {"select", "commit"}}}

\* Uploads accepted so far, answered or in progress.
Accepted == calls + Cardinality({w \in Workers : upload[w].pc # "idle"})

\* The catalogue before any package is stored.
InitVersions ==
    /\ agents = [a \in AgentIds |->
                    [price_cents |-> 9900, version |-> DefaultVersion,
                     package |-> "none"]]
    /\ licenses = <<>>
    /\ deployments = <<>>
    /\ images = {}
    /\ containers = {}
    /\ last = Response("init", NoDep, 0)
    /\ issued = 0
    /\ deployed = {}
    /\ calls = 0
    /\ pc = [r \in Racers |-> "idle"]
    /\ session = [r \in Racers |-> None]
    /\ exited = {}
    /\ NoUploads
    /\ NoWorkloads

\* What an upload never touches.
UploadFrame ==
    UNCHANGED <<licenses, deployments, images, containers, issued, deployed,
                raceVars, built, workloads>>

\* The upload moves on to its next statement.
UploadGoto(w, position) == upload' = [upload EXCEPT ![w].pc = position]

\* The package of the request was read and validate_package accepted it
\* (lines 61-73 and 246-260).
UploadBegins(w, op, agent_id, version, bytes) ==
    /\ upload[w].pc = "idle"
    /\ Accepted < MaxUploads
    /\ upload' = [upload EXCEPT ![w] =
                     [pc |-> "open", op |-> op, agent_id |-> agent_id,
                      version |-> version, bytes |-> bytes, cleared |-> {},
                      existing |-> 0]]
    /\ UNCHANGED <<agents, versions, files, temp, last, calls>>
    /\ UploadFrame

\* upload_package, line 78: open(package_path, "wb") creates the file
\* "<version>.zip" of the agent or empties it.
UploadOpens(w) ==
    /\ upload[w].pc = "open"
    /\ files' = (<<upload[w].agent_id, upload[w].version>> :> <<>>) @@ files
    /\ UploadGoto(w, "write")
    /\ UNCHANGED <<agents, versions, temp, last, calls>>
    /\ UploadFrame

\* upload_package, line 79: f.write(package_content) from the start of the
\* file.
UploadWrites(w) ==
    /\ upload[w].pc = "write"
    /\ LET key == <<upload[w].agent_id, upload[w].version>>
       IN files' = [files EXCEPT ![key] = Overlay(@, upload[w].bytes)]
    /\ UploadGoto(w, "clear")
    /\ UNCHANGED <<agents, versions, temp, last, calls>>
    /\ UploadFrame

\* An upload whose UPDATE of is_latest finds no row to write.
UploadClears_ClearsNothing(w) ==
    /\ upload[w].pc = "clear"
    /\ upload' = [upload EXCEPT ![w].pc = "lock", ![w].cleared = {}]
    /\ UNCHANGED <<agents, versions, files, temp, last, calls>>
    /\ UploadFrame

\* The UPDATE that sets is_latest to False (lines 143 and 305) is issued:
\* it is to write the rows of the agent that are committed now.
UploadClears(w) ==
    /\ upload[w].pc = "clear"
    /\ upload' = [upload EXCEPT ![w].pc = "lock",
                                ![w].cleared = RowsOf(upload[w].agent_id)]
    /\ UNCHANGED <<agents, versions, files, temp, last, calls>>
    /\ UploadFrame

\* The UPDATE writes its rows once no other open transaction holds one of
\* them, and keeps them locked until the commit.
UploadLocks(w) ==
    /\ upload[w].pc = "lock"
    /\ upload[w].cleared \cap LockedByOthers(w) = {}
    /\ UploadGoto(w, "select")
    /\ UNCHANGED <<agents, versions, files, temp, last, calls>>
    /\ UploadFrame

\* db.query(AgentVersion).filter(agent_id, version).first() (lines 145-148
\* and 308-311): the committed row of this version, if there is one.
UploadSelects(w) ==
    /\ upload[w].pc = "select"
    /\ LET same == {i \in RowsOf(upload[w].agent_id) :
                       versions[i].version = upload[w].version}
       IN upload' = [upload EXCEPT
                        ![w].pc = "commit",
                        ![w].existing = IF same = {} THEN 0
                                        ELSE CHOOSE i \in same :
                                                 \A j \in same : i <= j]
    /\ UNCHANGED <<agents, versions, files, temp, last, calls>>
    /\ UploadFrame

\* The registry row an upload writes: the url names the pair, the checksum
\* and the size are those of the uploaded bytes (package_storage.py, lines
\* 67-68 and 96-102).
VersionRow(u, created_at) ==
    [agent_id |-> u.agent_id, version |-> u.version, is_latest |-> TRUE,
     checksum |-> Digest(u.bytes), size |-> Len(u.bytes),
     created_at |-> created_at]

\* Lines 150-168 and 313-336: the row of this version takes the new
\* checksum, size and created_at and is marked latest, or a new row is added
\* with is_latest=True, and db.commit() makes the writes of the transaction
\* visible.
UploadCommits(w) ==
    /\ upload[w].pc = "commit"
    /\ upload[w].existing \notin LockedByOthers(w)
    /\ LET u == upload[w]
           cleared == [i \in 1..Len(versions) |->
                          IF i \in u.cleared
                          THEN [versions[i] EXCEPT !.is_latest = FALSE]
                          ELSE versions[i]]
       IN /\ versions' =
                 IF u.existing # 0
                 THEN [cleared EXCEPT ![u.existing] = VersionRow(u, Now)]
                 ELSE Append(cleared, VersionRow(u, Now))
          /\ agents' = [agents EXCEPT ![u.agent_id].version = u.version,
                                      ![u.agent_id].package = "stored"]
          /\ last' = [Response(u.op, NoDep, 200) EXCEPT
                         !.req = [agent_id |-> u.agent_id,
                                  version |-> u.version, bytes |-> u.bytes]]
    /\ upload' = [upload EXCEPT ![w] = NoUpload]
    /\ calls' = calls + 1
    /\ UNCHANGED <<files, temp>>
    /\ UploadFrame

\* One upload, statement by statement, in the server process w.
UploadSteps(w) ==
    \/ \E op \in UploadOps, a \in AgentIds, v \in VersionNames,
          bytes \in Contents : UploadBegins(w, op, a, v, bytes)
    \/ UploadOpens(w)
    \/ UploadWrites(w)
    \/ UploadClears(w)
    \/ UploadLocks(w)
    \/ UploadSelects(w)
    \/ UploadCommits(w)

NextVersions == \E w \in Workers : UploadSteps(w)

SpecVersions == InitVersions /\ [][NextVersions]_vars

\* ------------------------------------------------------ package_storage.py
\* What an uploaded body can be: not a ZIP archive, an archive without
\* members, an archive without agent.yaml, an archive whose agent.yaml is
\* not YAML, one whose agent.yaml is empty (safe_load returns None), one
\* whose agent.yaml is a mapping.
PackageKinds == {"not_zip", "empty_zip", "no_manifest", "bad_yaml",
                 "null_yaml", "manifest"}

\* The agent.yaml mappings, by the required keys they carry: apiVersion is
\* there or not, kind is absent, 'Agent' or something else, metadata and
\* spec are absent or mappings with some of their required keys.
Manifests ==
    [apiVersion : BOOLEAN, kind : {None, "Agent", "Workflow"},
     metadata : {[present |-> FALSE, keys |-> {}]} \cup
                [present : {TRUE}, keys : SUBSET {"name", "version"}],
     spec : {[present |-> FALSE, keys |-> {}]} \cup
            [present : {TRUE}, keys : SUBSET {"displayName", "description"}]]

\* The mapping {}.
EmptyManifest ==
    [apiVersion |-> FALSE, kind |-> None,
     metadata |-> [present |-> FALSE, keys |-> {}],
     spec |-> [present |-> FALSE, keys |-> {}]]

\* The bodies the validation is run on.
Packages ==
    {[kind |-> k, manifest |-> EmptyManifest] :
        k \in PackageKinds \ {"manifest"}} \cup
    {[kind |-> "manifest", manifest |-> m] : m \in Manifests}

\* errors.append(message) when the condition holds.
ErrorIf(condition, message) == IF condition THEN <<message>> ELSE <<>>

\* _validate_manifest_structure (lines 239-270).
ValidateManifestStructure(manifest) ==
    ErrorIf(~manifest.apiVersion, "Missing required field: apiVersion")
    \o (IF manifest.kind = None
        THEN <<"Missing required field: kind">>
        ELSE ErrorIf(manifest.kind # "Agent", "kind must be 'Agent'"))
    \o (IF ~manifest.metadata.present
        THEN <<"Missing required field: metadata">>
        ELSE ErrorIf("name" \notin manifest.metadata.keys,
                     "Missing required field: metadata.name")
             \o ErrorIf("version" \notin manifest.metadata.keys,
                        "Missing required field: metadata.version"))
    \o (IF ~manifest.spec.present
        THEN <<"Missing required field: spec">>
        ELSE ErrorIf("displayName" \notin manifest.spec.keys,
                     "Missing required field: spec.displayName")
             \o ErrorIf("description" \notin manifest.spec.keys,
                        "Missing required field: spec.description"))

\* validate_package (lines 128-196): the ManifestValidation it returns or
\* the exception it raises, and whether the directory the archive was
\* extracted to is still there afterwards.  The file the body was written
\* to is unlinked on every path (lines 187-189); the directory is removed
\* at line 185 only.  An archive without members is extracted to nothing,
\* and iterdir() on the missing directory raises; "in" on None raises.
ValidatePackage(pkg) ==
    CASE pkg.kind = "not_zip" ->
           [raised |-> FALSE, is_valid |-> FALSE, left |-> FALSE,
            errors |-> <<"File is not a valid ZIP archive">>]
      [] pkg.kind = "empty_zip" ->
           [raised |-> TRUE, is_valid |-> FALSE, left |-> FALSE,
            errors |-> <<>>]
      [] pkg.kind = "no_manifest" ->
           [raised |-> FALSE, is_valid |-> FALSE, left |-> TRUE,
            errors |-> <<"Package must contain agent.yaml in root directory">>]
      [] pkg.kind = "bad_yaml" ->
           [raised |-> FALSE, is_valid |-> FALSE, left |-> TRUE,
            errors |-> <<"Invalid YAML in agent.yaml">>]
      [] pkg.kind = "null_yaml" ->
           [raised |-> TRUE, is_valid |-> FALSE, left |-> TRUE,
            errors |-> <<>>]
      [] OTHER ->
           LET errors == ValidateManifestStructure(pkg.manifest)
           IN [raised |-> FALSE, is_valid |-> Len(errors) = 0,
               left |-> FALSE, errors |-> errors]

\* What a call leaves under the temp root: the extraction directory of the
\* call (its name is a fresh uuid4; here the number of the call).
Residue(validation) == IF validation.left THEN {<<"extract", Now>>} ELSE {}

\* POST /agents/{agent_id}/validate-package (packages.py, lines 367-387).
ValidateCall(pkg) ==
    /\ calls < MaxUploads
    /\ LET validation == ValidatePackage(pkg)
       IN /\ temp' = temp \cup Residue(validation)
          /\ last' = [Response("validate",
                               NoDep,
                               IF validation.raised THEN 500 ELSE 200)
                      EXCEPT !.req = pkg,
                             !.is_valid = validation.is_valid,
                             !.errors = validation.errors]
    /\ calls' = calls + 1
    /\ UNCHANGED <<agents, versions, upload, files>>
    /\ UploadFrame

NextValidate == \E pkg \in Packages : ValidateCall(pkg)

SpecValidate == InitVersions /\ [][NextValidate]_vars

\* ------------------------------------------------- uploads of one process
\* The bodies the upload endpoints are sent besides valid packages: the
\* ones that are no manifest-carrying archive, the archive whose manifest is
\* {} and the one whose manifest is complete but of another kind.
InvalidBodies ==
    {pkg \in Packages :
        \/ pkg.kind # "manifest"
        \/ pkg.manifest = EmptyManifest
        \/ pkg.manifest = [apiVersion |-> TRUE, kind |-> "Workflow",
                           metadata |-> [present |-> TRUE,
                                         keys |-> {"name", "version"}],
                           spec |-> [present |-> TRUE,
                                     keys |-> {"displayName",
                                               "description"}]]}

\* A handler that stores the body before it looks at the validation.
UploadRejects_StoresBody(w, op, agent_id, pkg) ==
    /\ upload[w].pc = "idle"
    /\ Accepted < MaxUploads
    /\ LET validation == ValidatePackage(pkg)
       IN /\ ~validation.is_valid
          /\ temp' = temp \cup Residue(validation)
          /\ last' = [Response(op, NoDep,
                               IF validation.raised THEN 500 ELSE 400)
                      EXCEPT !.req = [agent_id |-> agent_id,
                                      kind |-> pkg.kind,
                                      manifest |-> pkg.manifest],
                             !.errors = validation.errors]
    /\ files' = (<<agent_id, DefaultVersion>> :> <<"p">>) @@ files
    /\ calls' = calls + 1
    /\ UNCHANGED <<agents, versions, upload>>
    /\ UploadFrame

\* Lines 61-73 and 246-260: validate_package does not accept the body (or
\* raises), and the handler answers 400 (500) before it stores anything.
UploadRejects(w, op, agent_id, pkg) ==
    /\ upload[w].pc = "idle"
    /\ Accepted < MaxUploads
    /\ LET validation == ValidatePackage(pkg)
       IN /\ ~validation.is_valid
          /\ temp' = temp \cup Residue(validation)
          /\ last' = [Response(op, NoDep,
                               IF validation.raised THEN 500 ELSE 400)
                      EXCEPT !.req = [agent_id |-> agent_id,
                                      kind |-> pkg.kind,
                                      manifest |-> pkg.manifest],
                             !.errors = validation.errors]
    /\ calls' = calls + 1
    /\ UNCHANGED <<agents, versions, upload, files>>
    /\ UploadFrame

\* str(n) of a number below 100, as code points.
Digits(n) == IF n < 10 THEN <<48 + n>> ELSE <<48 + (n \div 10), 48 + (n % 10)>>

\* The version string of a manifest, e.g. "1.10.0", as code points.
VersionString(v) ==
    Digits(v[1]) \o <<46>> \o Digits(v[2]) \o <<46>> \o Digits(v[3])

\* s < t for Python strings: by the first code point that differs, a
\* proper prefix being smaller.
RECURSIVE StrLess(_, _)
StrLess(s, t) ==
    IF t = <<>> THEN FALSE
    ELSE IF s = <<>> THEN TRUE
    ELSE IF Head(s) # Head(t) THEN Head(s) < Head(t)
    ELSE StrLess(Tail(s), Tail(t))

\* sorted(strings, reverse=True)
RECURSIVE SortedReverse(_)
SortedReverse(strings) ==
    IF strings = {} THEN <<>>
    ELSE LET top == CHOOSE s \in strings :
                        \A t \in strings \ {s} : StrLess(t, s)
         IN <<top>> \o SortedReverse(strings \ {top})

\* list_versions (package_storage.py, lines 280-291): the stems of the
\* "<version>.zip" files of the agent's directory, sorted as strings.
ListVersions(agent_id) ==
    SortedReverse({VersionString(key[2]) :
                      key \in {k \in DOMAIN files : k[1] = agent_id}})

\* order_by(AgentVersion.created_at.desc()): the rows of the agent, the
\* latest created_at first (rows of equal created_at in table order).
RECURSIVE NewestFirst(_)
NewestFirst(rows) ==
    IF rows = {} THEN <<>>
    ELSE LET top == CHOOSE i \in rows :
                        \A j \in rows \ {i} :
                            \/ versions[i].created_at > versions[j].created_at
                            \/ /\ versions[i].created_at = versions[j].created_at
                               /\ i < j
         IN <<versions[top]>> \o NewestFirst(rows \ {top})

\* list_agent_versions (packages.py, lines 613-626).
ListAgentVersions(agent_id) == NewestFirst(RowsOf(agent_id))

\* GET /packages/agents/{agent_id}/versions
VersionsCall(agent_id) ==
    /\ upload["w1"].pc = "idle"
    /\ last' = [Response("versions", NoDep, 200) EXCEPT
                   !.req = [agent_id |-> agent_id],
                   !.listing = ListAgentVersions(agent_id)]
    /\ UNCHANGED <<agents, versions, upload, files, temp, calls>>
    /\ UploadFrame

\* storage.list_versions(agent_id)
ListVersionsCall(agent_id) ==
    /\ upload["w1"].pc = "idle"
    /\ last' = [Response("list_versions", NoDep, 200) EXCEPT
                   !.req = [agent_id |-> agent_id],
                   !.listing = ListVersions(agent_id)]
    /\ UNCHANGED <<agents, versions, upload, files, temp, calls>>
    /\ UploadFrame

\* One server process: an upload runs from its first statement to its
\* commit before the next request is taken up.
NextUploads ==
    \/ UploadSteps("w1")
    \/ \E op \in UploadOps, a \in AgentIds, pkg \in InvalidBodies :
           UploadRejects("w1", op, a, pkg)
    \/ \E a \in AgentIds : VersionsCall(a)
    \/ \E a \in AgentIds : ListVersionsCall(a)

SpecUploads == InitVersions /\ [][NextUploads]_vars

\* ------------------------------------------------- services/deployers/*.py
\* The deployers: DockerDeployer, KubernetesDeployer, VMDeployer,
\* AzureFunctionsDeployer, EdgeDeployer.  workloads is what their targets
\* hold: the Docker daemon's containers, the cluster's releases (one
\* namespace), the host's systemd services (one host), the subscription's
\* function apps, the edge registry's deployments.
DeployerKinds == {"docker", "kubernetes", "vm", "azure", "edge"}

\* The deployments the deployers are called for, each with the agent of its
\* row: two deployments of one agent and a deployment of another agent.
DeployPairs ==
    {[deployment_id |-> Uuid(1), agent_id |-> Uuid(5)],
     [deployment_id |-> Uuid(2), agent_id |-> Uuid(5)],
     [deployment_id |-> Uuid(3), agent_id |-> Uuid(6)]}

\* platform_config["function_app_name"], which only the Azure deployer reads.
FunctionApps(kind) == IF kind = "azure" THEN {"app1", "app2"} ELSE {None}

\* DeployConfig.env_vars: empty (the default) or one variable of the user.
DeployerEnvChoices == {<<>>, [API_KEY |-> "k1"]}

\* The DeployConfig objects (base.py, lines 24-33) of a deployment.
DeployConfigs(kind, pair) ==
    [agent_id : {pair.agent_id}, adapter : {"openai"},
     env_vars : DeployerEnvChoices, function_app_name : FunctionApps(kind)]

\* What the target answers to the command that creates the workload: the
\* id docker run prints, the edge_deployment_id of the registry's response,
\* success of helm / ssh / az, or a failure (None).
Replies(kind) ==
    CASE kind = "docker" -> {"c1", "c2", None}
      [] kind = "edge" -> {"e1", "e2", None}
      [] OTHER -> {"ok", None}

\* DockerDeployer.__init__: marketplace_url = "http://host.docker.internal:8000"
MarketplaceUrl == "http://host.docker.internal:8000"

\* The name of the target resource the deployer's methods address:
\* f"postqode-{config.agent_id}-{deployment_id[:8]}" (docker),
\* f"agent-{config.agent_id[:8]}" (kubernetes),
\* f"postqode-{config.agent_id[:8]}" (vm), function_app_name (azure),
\* the deployment id in the registry's URL (edge).
ResourceName(kind, deployment_id, config) ==
    CASE kind = "docker" -> ContainerName(config.agent_id, deployment_id)
      [] kind = "kubernetes" -> <<"agent", Prefix8(config.agent_id)>>
      [] kind = "vm" -> <<"postqode", Prefix8(config.agent_id)>>
      [] kind = "azure" -> <<"app", config.function_app_name>>
      [] OTHER -> <<"deployments", deployment_id>>

\* The variables the deployer adds to those of the config.
InjectedEnv(kind, deployment_id, config) ==
    CASE kind = "docker" ->
           [POSTQODE_DEPLOYMENT_ID |-> deployment_id,
            POSTQODE_AGENT_ID |-> config.agent_id,
            POSTQODE_ADAPTER |-> config.adapter,
            POSTQODE_MARKETPLACE_URL |-> MarketplaceUrl]
      [] kind = "kubernetes" ->
           [POSTQODE_ADAPTER |-> config.adapter,
            POSTQODE_AGENT_ID |-> config.agent_id]
      [] kind = "vm" ->
           [POSTQODE_DEPLOYMENT_ID |-> config.agent_id,
            POSTQODE_AGENT_ID |-> config.agent_id,
            POSTQODE_ADAPTER |-> config.adapter]
      [] kind = "azure" ->
           [POSTQODE_DEPLOYMENT_ID |-> deployment_id,
            POSTQODE_AGENT_ID |-> config.agent_id,
            POSTQODE_ADAPTER |-> config.adapter]
      [] OTHER -> <<>>

\* The environment of the workload: the later definition of a name wins,
\* and only the VM deployer writes the config's variables last.
WorkloadEnv(kind, deployment_id, config) ==
    IF kind = "vm"
    THEN config.env_vars @@ InjectedEnv(kind, deployment_id, config)
    ELSE InjectedEnv(kind, deployment_id, config) @@ config.env_vars

\* DeployResult.external_id of a successful deploy.
ExternalId(kind, deployment_id, config, reply) ==
    CASE kind = "docker" -> <<"container", reply>>
      [] kind = "edge" -> <<"edge_deployment", reply>>
      [] OTHER -> ResourceName(kind, deployment_id, config)

\* The targets without the resource of that name.
Without(name) == [n \in DOMAIN workloads \ {name} |-> workloads[n]]

\* What no deployer touches.
DeployerFrame ==
    UNCHANGED <<agents, licenses, deployments, images, containers, issued,
                deployed, raceVars, uploadVars>>

\* deploy(deployment_id, config, build_result) after a successful build.
DeployerDeploys(kind, deployment_id, config, reply) ==
    /\ calls < MaxCalls
    /\ LET name == <<kind, ResourceName(kind, deployment_id, config)>>
           external_id == ExternalId(kind, deployment_id, config, reply)
           workload == [deployment_id |-> deployment_id,
                        agent_id |-> config.agent_id,
                        env |-> WorkloadEnv(kind, deployment_id, config),
                        running |-> TRUE,
                        external_id |-> external_id]
       IN /\ workloads' =
                 IF reply # None THEN (name :> workload) @@ workloads
                 ELSE IF kind = "docker" THEN Without(name)
                 ELSE workloads
          /\ last' = [Response("deployer_deploy", deployment_id, 0) EXCEPT
                         !.req = [deployer |-> kind, config |-> config],
                         !.started = reply # None,
                         !.external_id = IF reply # None THEN external_id
                                         ELSE <<>>]
    /\ calls' = calls + 1
    /\ DeployerFrame

\* stop(deployment_id, config): docker stop, kubectl scale --replicas=0,
\* systemctl stop, az functionapp stop, POST .../stop.
DeployerStops(kind, deployment_id, config) ==
    /\ calls < MaxCalls
    /\ LET name == <<kind, ResourceName(kind, deployment_id, config)>>
       IN /\ workloads' =
                 IF name \in DOMAIN workloads
                 THEN [workloads EXCEPT ![name].running = FALSE]
                 ELSE workloads
          /\ last' = [Response("deployer_stop", deployment_id, 0) EXCEPT
                         !.req = [deployer |-> kind, config |-> config],
                         !.status = IF name \in DOMAIN workloads
                                    THEN "stopped" ELSE "error"]
    /\ calls' = calls + 1
    /\ DeployerFrame

\* delete(deployment_id, config): docker stop and rm, helm uninstall,
\* systemctl stop / disable and rm, az functionapp delete, DELETE.
DeployerDeletes(kind, deployment_id, config) ==
    /\ calls < MaxCalls
    /\ LET name == <<kind, ResourceName(kind, deployment_id, config)>>
       IN /\ workloads' = Without(name)
          /\ last' = [Response("deployer_delete", deployment_id, 0) EXCEPT
                         !.req = [deployer |-> kind, config |-> config],
                         !.started = name \in DOMAIN workloads]
    /\ calls' = calls + 1
    /\ DeployerFrame

NextDeployers ==
    \E kind \in DeployerKinds, pair \in DeployPairs :
        \E config \in DeployConfigs(kind, pair) :
            \/ \E reply \in Replies(kind) :
                   DeployerDeploys(kind, pair.deployment_id, config, reply)
            \/ DeployerStops(kind, pair.deployment_id, config)
            \/ DeployerDeletes(kind, pair.deployment_id, config)

SpecDeployers == InitVersions /\ [][NextDeployers]_vars

\* ------------------------------------------- two users and an administrator
\* Every handler that takes a user_id looks its row up by (id, user_id); the
\* health ping takes none.  The requests below reach one deployment of user
\* u1 from its owner and from another user, and an administrator changes
\* the status of the license it references.

\* The users that send requests: the owner of the deployment and another.
Tenants == {"u1", "u2"}
\* The deployment the requests address.
TenantDep == Uuid(1)
\* The env_vars of a reconfigure or a runtime start: none, or a mapping that
\* names one of the variables run_container sets itself.
TenantEnvChoices == {{}, {<<"POSTQODE_AGENT_ID", "a9">>}}
\* The new_status values an administrator sends.
NewStatuses == {"active", "expired", "cancelled", "EXPIRED"}
\* The requests the service answers in one run.
MaxRequests == 3

\* models/license.py, lines 9-12: the values of LicenseStatus
LicenseStatusValues == {"active", "expired", "cancelled"}

\* str.upper() on the new_status values
Upper(text) ==
    CASE text = "active" -> "ACTIVE"
      [] text = "expired" -> "EXPIRED"
      [] text = "cancelled" -> "CANCELLED"
      [] OTHER -> text

\* admin.py, update_license_status (lines 494-522): LicenseStatus(value)
\* looks the member up by value and raises ValueError for any other text,
\* which the handler answers with 400.
UpdateLicenseStatus(license_id, new_status) ==
    /\ IF license_id \notin 1..Len(licenses)
       THEN /\ last' = Response("update_license_status", NoDep, 404)
            /\ UNCHANGED licenses
       ELSE LET resp == [Response("update_license_status", NoDep, 200) EXCEPT
                            !.req = [license_id |-> license_id,
                                     new_status |-> new_status]]
            IN IF Upper(new_status) \notin LicenseStatusValues
               THEN /\ last' = [resp EXCEPT !.code = 400]
                    /\ UNCHANGED licenses
               ELSE /\ licenses' = [licenses EXCEPT ![license_id].status =
                                       Upper(new_status)]
                    /\ last' = [resp EXCEPT !.status = Upper(new_status)]
    /\ UNCHANGED <<agents, deployments, images, containers, issued>>

\* docker_runtime.py, run_container (lines 194-211): the "-e" arguments are
\* the four variables the service sets, then the caller's env_vars; docker
\* gives a variable named twice the value of its last "-e".
ContainerEnv(deployment_id, agent_id, adapter, env_vars) ==
    LET injected == [POSTQODE_DEPLOYMENT_ID |-> deployment_id,
                     POSTQODE_AGENT_ID |-> agent_id,
                     POSTQODE_ADAPTER |-> adapter,
                     POSTQODE_MARKETPLACE_URL |-> MarketplaceUrl]
        custom == {p[1] : p \in env_vars}
    IN [k \in DOMAIN injected \cup custom |->
           IF k \in custom THEN (CHOOSE p \in env_vars : p[1] = k)[2]
           ELSE injected[k]]

\* The deployment of u1 as unified_deploy, start_deployment and
\* stop_deployment leave it: the container runs when the row is active.
InitTenants ==
    /\ calls = 0
    /\ agents = [a \in AgentIds |->
                    [price_cents |-> 9900, version |-> 1, package |-> "stored"]]
    /\ \E a \in AgentIds, p \in Ports, st \in RaceStatuses :
          LET row == [NewDeployment(1, a, "u1", "kubernetes", DefaultAdapter,
                                    {}, p)
                         EXCEPT !.status = st,
                                !.error_message =
                                    IF st = "error"
                                    THEN TextClass(ShortStderrLen) ELSE None]
          IN /\ licenses = <<[user_id |-> "u1", agent_id |-> a,
                              status |-> "active"]>>
             /\ deployments = (TenantDep :> row)
             /\ images = {ImageName(a, 1)}
             /\ containers =
                    IF st = "active"
                    THEN ContainersAfterRun({}, [success |-> TRUE, error |-> None],
                                            TenantDep, a, p, {})
                    ELSE {}
             /\ deployed = IF st \in {"active", "stopped"} THEN {TenantDep}
                           ELSE {}
    /\ last = Response("init", NoDep, 0)
    /\ issued = 1
    /\ pc = [r \in Racers |-> "idle"]
    /\ session = [r \in Racers |-> None]
    /\ exited = {}
    /\ NoUploads
    /\ NoWorkloads

\* The service answers one request at a time, MaxRequests requests in all.
TenantServe(Handler) ==
    /\ calls < MaxRequests
    /\ Handler
    /\ calls' = calls + 1
    /\ UNCHANGED <<deployed, raceVars, uploadVars, workloads>>

NextTenants ==
    \/ \E u \in Tenants : TenantServe(StartDeployment(TenantDep, u, TRUE, None))
    \/ \E u \in Tenants : TenantServe(StopDeployment(TenantDep, u, TRUE))
    \/ \E u \in Tenants, env \in TenantEnvChoices, restart \in BOOLEAN :
          TenantServe(ReconfigureDeployment(TenantDep, u, env, restart,
                                            TRUE, None))
    \/ \E u \in Tenants, p \in Ports, env \in TenantEnvChoices :
          TenantServe(StartContainer(TenantDep, u, DefaultAdapter, p, env,
                                     TRUE, None))
    \/ \E u \in Tenants : TenantServe(StopContainer(TenantDep, u, TRUE))
    \/ \E u \in Tenants, st \in UpdateStatuses :
          TenantServe(UpdateDeploymentStatus(TenantDep, u, st, None))
    \/ \E u \in Tenants : TenantServe(DeleteDeployment(TenantDep, u))
    \/ TenantServe(HealthCheck(TenantDep, NoCount, NoTime))
    \/ \E l \in 1..Len(licenses), st \in NewStatuses :
          TenantServe(UpdateLicenseStatus(l, st))

SpecTenants == InitTenants /\ [][NextTenants]_vars

\* ------------------------------------------- deploys of uploaded packages
\* unified_deploy between the uploads of one server process: step 5 asks the
\* daemon for the image of (agent, agent.version) and builds it from the
\* file get_package_path names only when the daemon holds none.

\* The requests, uploads and deploys, the service answers in one run.
MaxImageCalls == 4

\* The user has bought a license for the agent; no package is stored yet.
InitImages ==
    /\ calls = 0
    /\ agents = [a \in AgentIds |->
                    [price_cents |-> 9900, version |-> DefaultVersion,
                     package |-> "none"]]
    /\ licenses = <<[user_id |-> "u1", agent_id |-> "a1", status |-> "active"]>>
    /\ deployments = <<>>
    /\ images = {}
    /\ containers = {}
    /\ last = Response("init", NoDep, 0)
    /\ issued = 0
    /\ deployed = {}
    /\ pc = [r \in Racers |-> "idle"]
    /\ session = [r \in Racers |-> None]
    /\ exited = {}
    /\ NoUploads
    /\ NoWorkloads

\* build_image_from_package (docker_runtime.py, lines 82-100): the image is
\* made of what the zip at package_path holds when it is extracted.
BuiltAfter(imgs) ==
    [i \in imgs |-> IF i \in images THEN built[i] ELSE files[<<i[1], i[2]>>]]

\* unified_deploy with auto_start and a daemon on which every command
\* succeeds, taken up when no upload is running.
DeployCall(user_id, agent_id, port) ==
    /\ upload["w1"].pc = "idle"
    /\ calls < MaxImageCalls
    /\ UnifiedDeploy(user_id, agent_id, "docker", port, TRUE, Uuid(issued + 1),
                     TRUE, None, None)
    /\ built' = BuiltAfter(images')
    /\ calls' = calls + 1
    /\ deployed' = IF last'.started THEN deployed \cup {last'.dep} ELSE deployed
    /\ UNCHANGED <<raceVars, versions, upload, files, temp, workloads>>

NextImages ==
    \/ UploadSteps("w1")
    \/ \E u \in Users, a \in AgentIds, p \in Ports : DeployCall(u, a, p)

SpecImages == InitImages /\ [][NextImages]_vars

\* --------------------------------------------- purchases served side by side
\* create_license and unified_deploy are plain functions, served on the
\* threads of a pool, each with a session of its own; the licenses table
\* has no unique constraint on (user_id, agent_id).  A purchase reads the
\* table (market.py, lines 331-338) and writes it (lines 341-353) in two
\* statements, between which another request's statements may run.

\* The requests that are served at the same time.
Buyers == {"b1", "b2"}
\* The requests the service answers in one run.
MaxPurchases == 3

\* A published agent, free or paid, with a stored package; nobody holds a
\* license.
InitLicenses ==
    /\ calls = 0
    /\ agents \in [AgentIds -> [price_cents : Prices, version : {1},
                                package : {"stored"}]]
    /\ licenses = <<>>
    /\ deployments = <<>>
    /\ images = {}
    /\ containers = {}
    /\ last = Response("init", NoDep, 0)
    /\ issued = 0
    /\ deployed = {}
    /\ pc = [b \in Buyers |-> "idle"]
    /\ session = [b \in Buyers |-> None]
    /\ exited = {}
    /\ NoUploads
    /\ NoWorkloads

\* Requests accepted so far, answered or in progress.
Purchasing == calls + Cardinality({b \in Buyers : pc[b] # "idle"})

\* What a purchase never touches.
PurchaseFrame ==
    UNCHANGED <<agents, deployments, images, containers, issued, deployed,
                exited, uploadVars, workloads>>

\* create_license, lines 309-339: the agent is looked up, then an ACTIVE
\* license of (user, agent); the request is answered when the agent is
\* unknown or such a license exists.
PurchaseChecks(b, user_id, agent_id) ==
    /\ pc[b] = "idle"
    /\ Purchasing < MaxPurchases
    /\ IF agent_id \notin DOMAIN agents
       THEN /\ last' = Response("create_license", NoDep, 404)
            /\ calls' = calls + 1
            /\ UNCHANGED <<pc, session>>
       ELSE IF FirstActiveLicense(user_id, agent_id) # 0
       THEN /\ last' = Response("create_license", NoDep, 201)
            /\ calls' = calls + 1
            /\ UNCHANGED <<pc, session>>
       ELSE /\ pc' = [pc EXCEPT ![b] = "insert"]
            /\ session' = [session EXCEPT ![b] =
                              [user_id |-> user_id, agent_id |-> agent_id]]
            /\ UNCHANGED <<last, calls>>
    /\ UNCHANGED licenses
    /\ PurchaseFrame

\* create_license, lines 341-353: the license is added and committed.
PurchaseInserts(b) ==
    /\ pc[b] = "insert"
    /\ licenses' = Append(licenses, [user_id |-> session[b].user_id,
                                     agent_id |-> session[b].agent_id,
                                     status |-> "active"])
    /\ last' = Response("create_license", NoDep, 201)
    /\ calls' = calls + 1
    /\ pc' = [pc EXCEPT ![b] = "idle"]
    /\ session' = [session EXCEPT ![b] = None]
    /\ PurchaseFrame

\* unified_deploy on a daemon whose commands succeed: it adds no license
\* (line 442 raises), so its statements need not be told apart.
PurchaseDeploys(b, user_id, agent_id, port, auto_start) ==
    /\ pc[b] = "idle"
    /\ Purchasing < MaxPurchases
    /\ UnifiedDeploy(user_id, agent_id, "docker", port, auto_start,
                     Uuid(issued + 1), TRUE, None, None)
    /\ calls' = calls + 1
    /\ deployed' = IF last'.started THEN deployed \cup {last'.dep} ELSE deployed
    /\ UNCHANGED <<raceVars, uploadVars, workloads>>

NextLicenses ==
    \/ \E b \in Buyers, u \in Users, a \in AgentIds \cup {NoAgent} :
          PurchaseChecks(b, u, a)
    \/ \E b \in Buyers : PurchaseInserts(b)
    \/ \E b \in Buyers, u \in Users, a \in AgentIds, p \in Ports,
          auto_start \in BOOLEAN :
          PurchaseDeploys(b, u, a, p, auto_start)

SpecLicenses == InitLicenses /\ [][NextLicenses]_vars

\* ------------------------------------- a health ping beside a deploy or stop
\* health_check (deployments.py, lines 218-249) is a plain function as well:
\* it loads the row, changes its object and commits, and between its
\* statements a stop or the rest of a unified_deploy pipeline may commit.

\* The requests that are served at the same time.
Pingers == {"ping", "stop", "deploy"}

\* unified_deploy has committed the row as pending (line 487) and found
\* the image on the daemon; "docker run" is still to come.  A stop and a
\* health ping for the row arrive.
InitPing ==
    /\ calls = 1
    /\ agents = [a \in AgentIds |->
                    [price_cents |-> 9900, version |-> 1, package |-> "stored"]]
    /\ \E u \in Users, a \in AgentIds, p \in Ports :
          LET row == NewDeployment(1, a, u, "docker", DefaultAdapter, {}, p)
          IN /\ licenses = <<[user_id |-> u, agent_id |-> a,
                              status |-> "active"]>>
             /\ deployments = (RaceDep :> row)
             /\ session = [r \in Pingers |->
                              IF r = "deploy"
                              THEN [row |-> row,
                                    result |-> [success |-> FALSE,
                                                error |-> None]]
                              ELSE None]
             /\ images = {ImageName(a, 1)}
    /\ containers = {}
    /\ deployed = {}
    /\ last = Response("init", NoDep, 0)
    /\ issued = 1
    /\ pc = [r \in Pingers |-> IF r = "deploy" THEN "run" ELSE "load"]
    /\ exited = {}
    /\ NoUploads
    /\ NoWorkloads

\* health_check, lines 228-233
PingLoads == Loads("ping", "commit")

\* health_check, lines 235-249: the object is changed and committed, and
\* the request is answered with the status of the object.
PingCommits(total_invocations, last_invocation) ==
    /\ pc["ping"] = "commit"
    /\ LET loaded == session["ping"].row
           mine == [loaded EXCEPT
                       !.last_health_check = Now,
                       !.total_invocations =
                           Reported(loaded.total_invocations,
                                    total_invocations, NoCount),
                       !.last_invocation =
                           Reported(loaded.last_invocation, last_invocation,
                                    NoTime),
                       !.status = HealthStatus(loaded.status)]
       IN /\ deployments' = [deployments EXCEPT ![RaceDep] =
                                Flushed(@, loaded, mine)]
          /\ last' = [Response("health", RaceDep, 200) EXCEPT
                         !.status = mine.status,
                         !.req = [total_invocations |-> total_invocations,
                                  last_invocation |-> last_invocation]]
    /\ Goto("ping", "done")
    /\ calls' = calls + 1
    /\ UNCHANGED <<containers, exited, session>>
    /\ RaceFrame

\* unified_deploy, lines 603-634: "docker run", then the commit of the
\* outcome.  The commit of line 487 expired the object, so the UPDATE
\* carries the status and the error_message whatever the row holds.
PipelineEnds(run) ==
    /\ pc["deploy"] = "run"
    /\ LET row == session["deploy"].row
           port == row.deployment_config.port
           result == RunContainerResult(images, containers, RaceDep,
                         row.agent_id, agents[row.agent_id].version, TRUE, run)
       IN /\ containers' = ContainersAfterRun(containers, result, RaceDep,
                               row.agent_id, port,
                               EnvVarsOf(row.deployment_config))
          /\ deployments' =
                 IF result.success
                 THEN MarkActive(deployments, RaceDep)
                 ELSE IF CommitAccepts(result.error)
                 THEN MarkError(deployments, RaceDep, result.error)
                 ELSE deployments
          /\ deployed' = IF result.success THEN deployed \cup {RaceDep}
                         ELSE deployed
          /\ last' = [Response("deploy", RaceDep,
                               IF result.success \/ CommitAccepts(result.error)
                               THEN 200 ELSE 500) EXCEPT
                         !.resp_id = RaceDep,
                         !.status = IF result.success THEN "active"
                                    ELSE "failed",
                         !.auto_start = TRUE,
                         !.started = result.success,
                         !.backend = "DockerRuntimeService",
                         !.tool = Tool(result.success)]
    /\ Goto("deploy", "done")
    /\ calls' = calls + 1
    /\ UNCHANGED <<agents, licenses, images, issued, exited, session,
                   uploadVars, workloads>>

NextPing ==
    \/ PingLoads
    \/ \E t \in HealthTotals : PingCommits(t, NoTime)
    \/ \E run \in CmdOutcomes : PipelineEnds(run)
    \/ StopLoads
    \/ StopStops
    \/ StopRemoves
    \/ StopCommits

SpecPing == InitPing /\ [][NextPing]_vars

\* ================================================================== claims
\* The order in which unified_deploy runs its steps.
StepOrder == <<"validate_agent", "check_license", "create_deployment",
               "check_docker", "build_image", "run_container">>

\* The last call was a unified_deploy that returned a response body.
DeployReturned == last.op = "deploy" /\ last.code = 200

\* The row the last call addressed or created.
LastRow == deployments[last.dep]

\* C1: in every unified_deploy call that returns, the steps are in execution
\* order, every step before the last is completed, the last is completed or
\* failed (so nothing follows a failed step and nothing is left running).
C1_StepsOrderedAbortOnFirstFailure ==
    DeployReturned =>
        /\ Len(last.steps) \in 1..Len(StepOrder)
        /\ \A i \in 1..Len(last.steps) : last.steps[i].step = StepOrder[i]
        /\ \A i \in 1..(Len(last.steps) - 1) : last.steps[i].status = "completed"
        /\ last.steps[Len(last.steps)].status \in {"completed", "failed"}

\* C1 witness: a call that aborted at the build step.
C1_Witness ==
    /\ DeployReturned
    /\ Len(last.steps) = 5
    /\ last.steps[5].status = "failed"

\* C2 (as claimed): a unified_deploy call that fails after the row was
\* created leaves the row in status error with a non-empty error_message,
\* reports the failing step as failed and answers with the row's id.
C2_FailureAfterCreatePatchesRow ==
    (last.op = "deploy" /\ last.created /\ last.status \notin {"active", "pending"}) =>
        /\ last.dep \in DOMAIN deployments
        /\ LastRow.status = "error"
        /\ LastRow.error_message \notin {None, TextClass(0)}
        /\ last.status = "failed"
        /\ last.steps # <<>>
        /\ last.steps[Len(last.steps)].status = "failed"
        /\ last.resp_id = last.dep

\* C3: a unified_deploy call that aborts at validate_agent or check_license
\* leaves the licenses and deployments tables as they were and answers with
\* an empty deployment_id.
C3_AbortBeforeCreateLeavesStore ==
    [][(/\ last'.op = "deploy"
        /\ last'.status = "failed"
        /\ Len(last'.steps) <= 2)
       => (/\ deployments' = deployments
           /\ licenses' = licenses
           /\ ~last'.created
           /\ last'.resp_id = NoDep)]_vars

\* C3 witness: an abort at check_license (paid agent, no active license).
C3_Witness ==
    /\ DeployReturned
    /\ last.status = "failed"
    /\ Len(last.steps) = 2
    /\ \E a \in AgentIds : agents[a].price_cents > 0
    /\ licenses = <<>>

\* C4: a unified_deploy call with auto_start whose container was started
\* leaves the row active with no error_message and answers status active,
\* the URL of the requested port and six completed steps.
C4_AutoStartSuccessIsActive ==
    (last.op = "deploy" /\ last.auto_start /\ last.started) =>
        /\ last.dep \in DOMAIN deployments
        /\ LastRow.status = "active"
        /\ LastRow.error_message = None
        /\ last.status = "active"
        /\ last.resp_id = last.dep
        /\ last.url = LastRow.deployment_config.port
        /\ last.url \in Ports
        /\ Len(last.steps) = Len(StepOrder)
        /\ \A i \in 1..Len(last.steps) : last.steps[i].status = "completed"

\* C4 witness: such a call, with its container running.
C4_Witness ==
    /\ last.op = "deploy" /\ last.auto_start /\ last.started
    /\ \E c \in containers : c.deployment_id = last.dep

\* C5: a unified_deploy call without auto_start whose build step completed
\* starts no container and leaves the row pending.
C5_NoAutoStartStaysPending ==
    [][(/\ last'.op = "deploy"
        /\ ~last'.auto_start
        /\ Len(last'.steps) >= 5
        /\ last'.steps[5].status = "completed")
       => (/\ containers' = containers
           /\ ~last'.started
           /\ last'.dep \in DOMAIN deployments'
           /\ deployments'[last'.dep].status = "pending"
           /\ last'.status = "pending")]_vars

\* C5 witness: such a call has returned.
C5_Witness ==
    /\ DeployReturned
    /\ ~last.auto_start
    /\ Len(last.steps) = 5
    /\ last.steps[5].status = "completed"
    /\ LastRow.status = "pending"

\* C6 (as claimed): the backend that served a deployment is the deployer the
\* factory registers for the row's platform; only docker rows are served by
\* a backend driving the local docker CLI.
C6_BackendIsFactoryDeployer ==
    (last.backend # "none" /\ last.dep \in DOMAIN deployments) =>
        IF GetDeployer(LastRow.deployment_type) = "DockerDeployer"
        THEN last.backend \in LocalContainerBackends
        ELSE last.backend = GetDeployer(LastRow.deployment_type)

\* C7 (as claimed): no deployment moves from pending directly to stopped.
C7_NoPendingToStopped ==
    [][\A d \in DOMAIN deployments \cap DOMAIN deployments' :
          deployments[d].status = "pending" => deployments'[d].status # "stopped"]_vars

\* The operations of the deployment pipeline.
PipelineOps == {"deploy", "start", "stop", "reconfigure"}

\* The status of row d differs before and after the step.
StatusChanged(d) ==
    /\ d \in DOMAIN deployments \cap DOMAIN deployments'
    /\ deployments'[d].status # deployments[d].status

\* C8 (as claimed): only the pipeline operations change a row's status.
C8_OnlyPipelineWritesStatus ==
    [][\A d \in UuidSpace : StatusChanged(d) => last'.op \in PipelineOps]_vars

\* The handlers that write the status of the row they address.
StatusWriters == {"start", "stop", "reconfigure", "runtime_start",
                  "runtime_stop", "update_status", "health"}

\* C8 (amended): the status of an existing row is changed only by a
\* lifecycle handler addressing that row: pipeline start, stop, reconfigure,
\* runtime start, runtime stop, the status update, and the health ping, which
\* only promotes pending to active.
C8_StatusWrittenOnlyByLifecycleHandlers ==
    [][\A d \in UuidSpace : StatusChanged(d) =>
          /\ last'.op \in StatusWriters
          /\ last'.dep = d
          /\ last'.op = "health" =>
                (deployments[d].status = "pending" /\ deployments'[d].status = "active")]_vars

\* C8 witness: a health ping promoted a row no container runs for.
C8_Witness ==
    /\ last.op = "health" /\ last.code = 200
    /\ last.dep \in DOMAIN deployments
    /\ LastRow.status = "active"
    /\ ~\E c \in containers : c.deployment_id = last.dep

\* The four statuses the claim allows after an operation.
SettledStatuses == {"pending", "active", "stopped", "error"}

\* C9 (as claimed): after a deploy, start, stop, reconfigure or health ping
\* returns, the row's status is pending, active, stopped or error.
C9_StatusSettledAfterOperation ==
    (/\ last.op \in PipelineOps \cup {"health"}
     /\ last.code = 200
     /\ last.dep \in DOMAIN deployments)
    => LastRow.status \in SettledStatuses

\* C9 (amended): a deploy, start, stop, reconfigure or health ping never
\* writes updating: a row that is updating after one of them was updating
\* before it.
C9_OperationsNeverWriteUpdating ==
    [][last'.op \in PipelineOps \cup {"health"} =>
          \A d \in DOMAIN deployments' :
              deployments'[d].status = "updating" =>
                  (d \in DOMAIN deployments /\ deployments[d].status = "updating")]_vars

\* C9 witness: a health ping returned for a row that is updating.
C9_Witness ==
    /\ last.op = "health" /\ last.code = 200
    /\ last.dep \in DOMAIN deployments
    /\ LastRow.status = "updating"

\* C10 (as claimed): a row that has had a successful deploy carries a
\* non-empty external_id whenever its status is active, stopped or error.
C10_ExternalIdAfterDeploy ==
    \A d \in DOMAIN deployments :
        (d \in deployed /\ deployments[d].status \in {"active", "stopped", "error"})
        => deployments[d].external_id \notin {None, TextClass(0)}

\* C11 (as claimed): whenever a row has both stopped_at and deployed_at,
\* stopped_at is not earlier than deployed_at.
C11_StoppedNotBeforeDeployed ==
    \A d \in DOMAIN deployments :
        (deployments[d].stopped_at # NoTime /\ deployments[d].deployed_at # NoTime)
        => deployments[d].stopped_at >= deployments[d].deployed_at

\* C12: with the docker CLI succeeding, unified_deploy with auto_start, then
\* stop, then start of the same id answers success and leaves that row
\* active with its container running; no stop or start adds a row or hands
\* out an id.  (The row was created by the request before the stop, so the
\* three requests follow one another.)
C12_DeployStopStartRestoresActive ==
    [][/\ (/\ last.op = "stop" /\ last.code = 200 /\ last.tool = "ok"
           /\ last.dep \in deployed
           /\ last.dep \in DOMAIN deployments
           /\ deployments[last.dep].deployed_at = calls - 1
           /\ last'.op = "start" /\ last'.dep = last.dep /\ last'.tool = "ok")
          => (/\ last'.code = 200
              /\ deployments'[last.dep].status = "active"
              /\ \E c \in containers' : c.deployment_id = last.dep)
       /\ last'.op \in {"stop", "start"}
          => (DOMAIN deployments' = DOMAIN deployments /\ issued' = issued)]_vars

\* C12 witness: the start that followed a stop of a deployed row succeeded.
C12_Witness ==
    /\ last.op = "start" /\ last.code = 200 /\ last.tool = "ok"
    /\ last.dep \in deployed
    /\ LastRow.status = "active"
    /\ LastRow.stopped_at = calls - 1
    /\ LastRow.deployed_at = calls

\* C13 (as claimed): with the docker daemon up, a stop that repeats a
\* successful stop of the same row answers success again and leaves the row
\* stopped.
C13_StopIsIdempotent ==
    [][(/\ last.op \in {"stop", "runtime_stop"} /\ last.code = 200
        /\ last.dep \in DOMAIN deployments
        /\ deployments[last.dep].status = "stopped"
        /\ last'.op \in {"stop", "runtime_stop"}
        /\ last'.dep = last.dep
        /\ last'.tool = "ok")
       => (/\ last'.code = 200
           /\ deployments'[last.dep].status = "stopped")]_vars

\* C14 (as claimed): a delete that repeats a successful delete of the same
\* id answers success again.
C14_DeleteIsIdempotent ==
    [][(/\ last.op = "delete" /\ last.code = 200
        /\ last'.op = "delete" /\ last'.dep = last.dep)
       => last'.code = 200]_vars

\* C15 (as claimed): a reconfigure without restart keeps the row's status
\* and port and stores the env_vars of the request.
C15_ReconfigureStoresEnvVars ==
    [][(/\ last'.op = "reconfigure" /\ last'.code = 200
        /\ ~last'.req.restart)
       => (/\ deployments'[last'.dep].status = deployments[last'.dep].status
           /\ deployments'[last'.dep].deployment_config.port =
                  deployments[last'.dep].deployment_config.port
           /\ deployments'[last'.dep].deployment_config.env_vars =
                  last'.req.env_vars)]_vars

\* C16 (as claimed): a reconfigure with restart on an active row ends active
\* with the container running the env_vars of the request when the start
\* succeeds and ends in error when it fails; on a row that is not active it
\* touches no container and keeps the status.
C16_RestartEndsActiveOrError ==
    [][(/\ last'.op = "reconfigure" /\ last'.code # 404
        /\ last'.req.restart)
       => IF deployments[last'.dep].status = "active"
          THEN IF last'.started
               THEN /\ deployments'[last'.dep].status = "active"
                    /\ \E c \in containers' :
                          /\ c.deployment_id = last'.dep
                          /\ c.env_vars = last'.req.env_vars
               ELSE deployments'[last'.dep].status = "error"
          ELSE /\ containers' = containers
               /\ deployments'[last'.dep].status =
                      deployments[last'.dep].status]_vars

\* C17: a health ping of an existing row turns pending into active and
\* leaves every other status, and every other row, as it was.
C17_PingOnlyPromotesPending ==
    [][(last'.op = "health" /\ last'.code = 200)
       => (/\ last'.dep \in DOMAIN deployments
           /\ DOMAIN deployments' = DOMAIN deployments
           /\ deployments'[last'.dep].status =
                  IF deployments[last'.dep].status = "pending"
                  THEN "active" ELSE deployments[last'.dep].status
           /\ \A d \in DOMAIN deployments \ {last'.dep} :
                  deployments'[d] = deployments[d])]_vars

\* C17 witness: a ping just recorded for a row that stays in error.
C17_Witness ==
    /\ last.op = "health" /\ last.code = 200
    /\ last.dep \in DOMAIN deployments
    /\ LastRow.status = "error"
    /\ LastRow.last_health_check = calls

\* C18: a health ping stores the reported total_invocations and
\* last_invocation as they are, and keeps the stored value of one the
\* request omits.
C18_PingAssignsTotalsAbsolutely ==
    [][(last'.op = "health" /\ last'.code = 200)
       => (/\ deployments'[last'.dep].total_invocations =
                  IF last'.req.total_invocations = NoCount
                  THEN deployments[last'.dep].total_invocations
                  ELSE last'.req.total_invocations
           /\ deployments'[last'.dep].last_invocation =
                  IF last'.req.last_invocation = NoTime
                  THEN deployments[last'.dep].last_invocation
                  ELSE last'.req.last_invocation)]_vars

\* C18 witness: a ping that reported the total an earlier ping had already
\* stored, and omitted last_invocation.
C18_Witness ==
    /\ last.op = "health" /\ last.code = 200
    /\ last.dep \in DOMAIN deployments
    /\ last.req.total_invocations # NoCount
    /\ last.req.last_invocation = NoTime
    /\ LastRow.total_invocations = last.req.total_invocations
    /\ LastRow.last_invocation # NoTime

\* C19 (as claimed): once a stop and a start served side by side are both
\* answered and the status was asked for, the row does not say stopped while
\* the container runs, nor active while no container runs.
C19_RecordAgreesWithWorkload ==
    pc["status"] = "done"
    => LET row == deployments[RaceDep]
           running == \E c \in containers : c.deployment_id = RaceDep
       IN /\ row.status = "stopped" => ~running
          /\ row.status = "active" => running

\* The rows of an agent that are marked latest.
LatestRows(agent_id) == {i \in RowsOf(agent_id) : versions[i].is_latest}

\* C20 (as claimed): in the committed registry every agent has at most one
\* row with is_latest=true, and exactly one as soon as it has a row.
C20_OneLatestPerAgent ==
    \A a \in AgentIds :
        /\ Cardinality(LatestRows(a)) <= 1
        /\ RowsOf(a) # {} => Cardinality(LatestRows(a)) = 1

\* C22 (as claimed): the committed registry holds at most one row for an
\* agent and a version.
C22_OneRowPerVersion ==
    \A i, j \in 1..Len(versions) :
        (/\ versions[i].agent_id = versions[j].agent_id
         /\ versions[i].version = versions[j].version)
        => i = j

\* C23 (as claimed): once no upload is in progress, the stored file of every
\* registry row is the bytes of one upload, and the row's checksum and size
\* are the digest and the length of that file.
C23_RecordMatchesStoredBytes ==
    (\A w \in Workers : upload[w].pc = "idle")
    => \A i \in 1..Len(versions) :
          LET key == <<versions[i].agent_id, versions[i].version>>
          IN /\ key \in DOMAIN files
             /\ files[key] \in Contents
             /\ versions[i].checksum = Digest(files[key])
             /\ versions[i].size = Len(files[key])


\* The required fields a manifest does not carry, among the six the
\* manifest format names.
MissingFields(manifest) ==
    {f \in {"apiVersion"} : ~manifest.apiVersion}
    \cup {f \in {"kind"} : manifest.kind = None}
    \cup {f \in {"name", "version"} : f \notin manifest.metadata.keys}
    \cup {f \in {"displayName", "description"} : f \notin manifest.spec.keys}

\* C26 (as claimed): the validation of a manifest reports one error for
\* each of the six required fields that is missing, and one more when kind
\* is present and is not 'Agent'.
C26_OneErrorPerMissingField ==
    (last.op = "validate" /\ last.req.kind = "manifest") =>
        Len(last.errors) =
            Cardinality(MissingFields(last.req.manifest))
            + (IF last.req.manifest.kind \in {None, "Agent"} THEN 0 ELSE 1)

\* C25 (as claimed): whatever the body was, nothing a validation created is
\* left under the temp root once it has returned or raised.
C25_NoTempResidue == temp = {}


\* v is a lower version than w: the numbers between the dots compared one
\* after the other.
NumLess(v, w) ==
    \/ v[1] < w[1]
    \/ v[1] = w[1] /\ v[2] < w[2]
    \/ v[1] = w[1] /\ v[2] = w[2] /\ v[3] < w[3]

\* The version strings of a set of versions, the highest version first.
RECURSIVE HighestFirst(_)
HighestFirst(vs) ==
    IF vs = {} THEN <<>>
    ELSE LET top == CHOOSE v \in vs : \A w \in vs \ {v} : NumLess(w, v)
         IN <<VersionString(top)>> \o HighestFirst(vs \ {top})

\* The versions of an agent that have a file in the package store.
StoredVersions(agent_id) ==
    {key[2] : key \in {k \in DOMAIN files : k[1] = agent_id}}

\* No upload is between its first statement and its commit.
NoUploadRunning == \A w \in Workers : upload[w].pc = "idle"

\* C27 (as claimed): the listing of the package store gives the versions of
\* the agent highest first by the numbers between the dots, and the listing
\* of the version registry gives the same versions in the same order.
C27_ListingsHighestFirst ==
    /\ (NoUploadRunning /\ last.op = "list_versions") =>
           last.listing = HighestFirst(StoredVersions(last.req.agent_id))
    /\ (NoUploadRunning /\ last.op = "versions") =>
           [i \in 1..Len(last.listing) |->
               VersionString(last.listing[i].version)]
           = ListVersions(last.req.agent_id)


\* C21 (as claimed): the row marked latest carries the newest version of the
\* agent, newest by the numbers between the dots.
C21_LatestIsHighestVersion ==
    \A i, j \in 1..Len(versions) :
        (versions[i].agent_id = versions[j].agent_id /\ versions[i].is_latest)
            => ~NumLess(versions[i].version, versions[j].version)

\* C21 (amended): when one server process stores a package, the registry
\* listing of the agent afterwards starts with the row of the uploaded
\* version, that row and no other is marked latest, and every version
\* listed before is still listed; the uploaded version need not be the
\* highest.
C21_LastUploadIsLatestAndFirst ==
    [][\A a \in AgentIds :
          (versions' # versions /\ last'.req.agent_id = a) =>
              LET listing == ListAgentVersions(a)'
              IN /\ listing[1].version = last'.req.version
                 /\ listing[1].is_latest
                 /\ \A i \in 2..Len(listing) : ~listing[i].is_latest
                 /\ \A i \in RowsOf(a) :
                        \E j \in 1..Len(listing) :
                            listing[j].version = versions[i].version]_vars

\* Version 1.9.0 was stored and then version 1.10.0: both are listed, the
\* later one first and alone marked latest.
C21_Witness ==
    /\ last.op \in UploadOps
    /\ last.code = 200
    /\ last.req.version = <<1, 10, 0>>
    /\ LET listing == ListAgentVersions(last.req.agent_id)
       IN /\ Len(listing) = 2
          /\ listing[1].version = <<1, 10, 0>> /\ listing[1].is_latest
          /\ listing[2].version = <<1, 9, 0>> /\ ~listing[2].is_latest

\* C24: an upload whose body validate_package does not accept is answered
\* with an error and changes no stored file, no registry row and no agent
\* row; a body that is not a ZIP archive is answered 400 with exactly one
\* validation error.
C24_RejectedUploadChangesNothing ==
    [][(last'.op \in UploadOps /\ last'.code # 200 /\ calls' = calls + 1) =>
          /\ files' = files
          /\ versions' = versions
          /\ agents' = agents
          /\ (last'.req.kind = "not_zip" =>
                 last'.code = 400 /\ Len(last'.errors) = 1)]_vars

\* A body that is not a ZIP archive was rejected with one error while a
\* version of the agent is stored.
C24_Witness ==
    /\ last.op \in UploadOps
    /\ last.code = 400
    /\ last.req.kind = "not_zip"
    /\ Len(last.errors) = 1
    /\ versions # <<>>
    /\ files # <<>>
    /\ agents["a1"].version # DefaultVersion


\* The resource the last deployer call addressed.
LastResource ==
    <<last.req.deployer,
      ResourceName(last.req.deployer, last.dep, last.req.config)>>

\* C28 (as claimed): a deploy that succeeds for an agent and a deployment
\* whose workload an earlier deploy put on the target reports the external
\* id the earlier deploy reported.
C28_ExternalIdDeterminedByPair ==
    [][(last'.op = "deployer_deploy" /\ last'.started /\ calls' = calls + 1) =>
          \A name \in DOMAIN workloads :
              (/\ name = LastResource'
               /\ workloads[name].deployment_id = last'.dep
               /\ workloads[name].agent_id = last'.req.config.agent_id)
                  => last'.external_id = workloads[name].external_id]_vars

\* C29 (as claimed): a stop or a delete through a deployer that derives the
\* resource name from the ids leaves the workload of every other deployment
\* as it is.
C29_StopSparesOtherDeployments ==
    [][(/\ last'.op \in {"deployer_stop", "deployer_delete"}
        /\ last'.req.deployer # "azure"
        /\ calls' = calls + 1) =>
          \A name \in DOMAIN workloads :
              workloads[name].deployment_id # last'.dep =>
                  /\ name \in DOMAIN workloads'
                  /\ workloads'[name] = workloads[name]]_vars

\* The four variables every workload is to find in its environment.
PostqodeVariables ==
    {"POSTQODE_DEPLOYMENT_ID", "POSTQODE_AGENT_ID", "POSTQODE_ADAPTER",
     "POSTQODE_MARKETPLACE_URL"}

\* C30 (as claimed): after a successful deploy with no env_vars the
\* environment of the workload has the four PostQode variables, the
\* deployment id and the agent id being those of the call.
C30_FourVariablesInjected ==
    (/\ last.op = "deployer_deploy"
     /\ last.started
     /\ DOMAIN last.req.config.env_vars = {}) =>
        LET env == workloads[LastResource].env
        IN /\ PostqodeVariables \subseteq DOMAIN env
           /\ env.POSTQODE_DEPLOYMENT_ID = last.dep
           /\ env.POSTQODE_AGENT_ID = last.req.config.agent_id


\* C31: a unified_deploy by a caller without an ACTIVE license on a free
\* agent leaves an ACTIVE license of (caller, agent) and a deployment row
\* that references it.
C31_FreeAgentDeployGrantsLicense ==
    [][\A u \in Users, a \in AgentIds :
          (/\ last'.op = "deploy" /\ calls' = calls + 1
           /\ last'.req = [user_id |-> u, agent_id |-> a]
           /\ agents[a].price_cents = 0
           /\ ActiveLicenseIds(u, a) = {}) =>
          (/\ last'.created
           /\ last'.dep \in DOMAIN deployments'
           /\ \E l \in 1..Len(licenses') :
                  /\ licenses'[l] = [user_id |-> u, agent_id |-> a,
                                     status |-> "active"]
                  /\ deployments'[last'.dep].license_id = l)]_vars

\* The container of deployment d runs on the daemon.
ContainerRuns(conts, deps, d) ==
    ContainerName(deps[d].agent_id, d) \in {c.name : c \in conts}

\* C36: a start of a deployment that is active with its container running
\* leaves the row active as long as the container keeps running.
C36_StartKeepsActiveDeployment ==
    [][\A d \in DOMAIN deployments :
          (/\ last'.op \in {"start", "runtime_start"} /\ last'.dep = d
           /\ calls' = calls + 1
           /\ deployments[d].status = "active"
           /\ ContainerRuns(containers, deployments, d)) =>
          (/\ d \in DOMAIN deployments'
           /\ (ContainerRuns(containers', deployments, d) =>
                  deployments'[d].status = "active"))]_vars

\* The fields that say which deployment a row is.
Identity(row) ==
    [deployment_type |-> row.deployment_type, agent_id |-> row.agent_id,
     user_id |-> row.user_id, license_id |-> row.license_id]

\* The start, stop, reconfigure and health-ping operations.
LifecycleOps ==
    {"start", "runtime_start", "stop", "runtime_stop", "reconfigure", "health"}

\* C37: a start, stop, reconfigure or health ping leaves the platform, the
\* agent, the owner and the license of every deployment as they were.
C37_LifecycleKeepsIdentity ==
    [][(last'.op \in LifecycleOps /\ calls' = calls + 1) =>
          \A d \in DOMAIN deployments :
             /\ d \in DOMAIN deployments'
             /\ Identity(deployments'[d]) = Identity(deployments[d])]_vars

\* C38: a delete that succeeds on a deployment whose container runs leaves
\* no container of that deployment on the daemon.
C38_DeleteRemovesContainer ==
    [][\A d \in DOMAIN deployments :
          (/\ last'.op = "delete" /\ last'.dep = d /\ last'.code = 200
           /\ calls' = calls + 1
           /\ ContainerRuns(containers, deployments, d)) =>
          (/\ d \notin DOMAIN deployments'
           /\ ~ContainerRuns(containers', deployments, d)
           /\ \A c \in containers' : c.deployment_id # d)]_vars

C40_InjectedVariablesWin ==
    [][(last'.started /\ calls' = calls + 1) =>
          \A c \in containers' :
             c.deployment_id = last'.dep =>
                LET row == deployments'[last'.dep]
                    env == ContainerEnv(last'.dep, row.agent_id,
                                        row.adapter_used, c.env_vars)
                IN /\ env.POSTQODE_DEPLOYMENT_ID = last'.dep
                   /\ env.POSTQODE_AGENT_ID = row.agent_id
                   /\ env.POSTQODE_ADAPTER = row.adapter_used]_vars

\* A start, stop, reconfigure, status-update or delete request of user u
\* for deployment d, whatever else it carries and whatever the daemon does.
OwnerCheckedRequest(d, u) ==
    \/ \E up \in BOOLEAN, run \in CmdOutcomes : StartDeployment(d, u, up, run)
    \/ \E up \in BOOLEAN : StopDeployment(d, u, up)
    \/ \E env \in TenantEnvChoices, restart, up \in BOOLEAN,
          run \in CmdOutcomes :
          ReconfigureDeployment(d, u, env, restart, up, run)
    \/ \E p \in Ports, env \in TenantEnvChoices, up \in BOOLEAN,
          run \in CmdOutcomes :
          StartContainer(d, u, DefaultAdapter, p, env, up, run)
    \/ \E up \in BOOLEAN : StopContainer(d, u, up)
    \/ \E st \in UpdateStatuses, msg \in UpdateMessages :
          UpdateDeploymentStatus(d, u, st, msg)
    \/ DeleteDeployment(d, u)

\* C39: a start, stop, reconfigure, status-update or delete request whose
\* user_id is not the owner's is answered 404 and leaves the deployment row
\* and the containers as they were; a step that changes a deployment or its
\* container is a health ping or one of these requests with the owner's id.
C39_OnlyOwnerOrPingModifies ==
    [][\A d \in DOMAIN deployments :
          /\ \A u \in Tenants :
                (u # deployments[d].user_id /\ OwnerCheckedRequest(d, u)) =>
                   /\ last'.code = 404
                   /\ deployments' = deployments
                   /\ containers' = containers
          /\ (\/ d \notin DOMAIN deployments'
              \/ deployments'[d] # deployments[d]
              \/ containers' # containers) =>
                \/ last'.op = "health"
                \/ OwnerCheckedRequest(d, deployments[d].user_id)]_vars

\* Another user's request for a running deployment was answered 404.
C39_Witness ==
    /\ last.op \in {"start", "stop", "reconfigure", "update_status", "delete"}
    /\ last.code = 404
    /\ last.dep \in DOMAIN deployments
    /\ deployments[last.dep].status = "active"
    /\ ContainerRuns(containers, deployments, last.dep)

\* C35: a unified_deploy that starts a container runs an image built from
\* the bytes the package store holds for the agent's current version, and a
\* unified_deploy for a version whose bytes the store does not hold ends in
\* error and starts no container.
C35_DeployRunsStoredBytes ==
    [][\A a \in AgentIds :
          (/\ last'.op = "deploy" /\ calls' = calls + 1
           /\ last'.req.agent_id = a) =>
          LET key == <<a, agents[a].version>>
              image == ImageName(a, agents[a].version)
          IN /\ last'.started =>
                   /\ key \in DOMAIN files
                   /\ image \in DOMAIN built'
                   /\ built'[image] = files[key]
             /\ key \notin DOMAIN files =>
                   /\ ~last'.started
                   /\ containers' = containers
                   /\ last'.created =>
                         deployments'[last'.dep].status = "error"]_vars

\* C34: no user holds two ACTIVE licenses for one agent.
C34_OneActiveLicensePerPair ==
    \A u \in Users, a \in AgentIds : Cardinality(ActiveLicenseIds(u, a)) <= 1

\* C32: a health ping that read the row as pending and commits after a
\* stop or a failed pipeline committed stopped or error leaves that status.
C32_PingKeepsCommittedResult ==
    [][(/\ pc["ping"] = "commit" /\ pc'["ping"] = "done"
        /\ session["ping"].row.status = "pending"
        /\ deployments[RaceDep].status \in {"error", "stopped"}) =>
          deployments'[RaceDep].status = deployments[RaceDep].status]_vars
====
